---- MODULE Spec2Model ----
(***************************************************************************)
(* OpenReviewAC: cached retrieval of OpenReview submissions and scores     *)
(* (histogram_scores.py), the author listing (list_author_papers.py) and   *)
(* the header-aware spreadsheet writer (utils/gsheet.py).                  *)
(*                                                                         *)
(* The program is single-threaded: every method is one action.  A method   *)
(* is a deterministic function of its arguments, of the state it reads,    *)
(* of what the remote services answer and of which of its I/O steps fail;  *)
(* the actions draw the answers and the failures from small sets.          *)
(***************************************************************************)
EXTENDS Integers, Sequences, FiniteSets, TLC

VARIABLES
    use_cache,      \* ScoreHistogramGenerator.use_cache
    refresh_cache,  \* ScoreHistogramGenerator.refresh_cache
    disk,           \* the files of cache_dir: path -> file
    last,           \* the last call: its arguments, its faults and its outcome
    expect,         \* per key, the data of the last _save_cache if its write succeeded
    call,           \* the arguments and the remote answers of the call under way
    sheet           \* the GSheetWithHeader object and the remote worksheet

vars == <<use_cache, refresh_cache, disk, last, expect, call, sheet>>

(***************************************************************************)
(* Bounds of the model.                                                    *)
(***************************************************************************)
MaxN == 4          \* submissions the remote source holds, at most
MaxBatch == 3      \* page sizes 1..MaxBatch stand for batch_size
MaxData == 2       \* items of a list handed to _save_cache, at most
MaxKeep == 1       \* stream items a write that fails midway leaves behind, at most
MaxNotes == 3      \* notes in the forum of a submission, at most

(***************************************************************************)
(* Python values.                                                          *)
(***************************************************************************)
None == [isNone |-> TRUE]
Some(v) == [isNone |-> FALSE, val |-> v]

Min(a, b) == IF a <= b THEN a ELSE b
Range(s) == {s[i] : i \in 1..Len(s)}

conference_id == "ICLR.cc/2026/Conference"

(***************************************************************************)
(* pickle.  A list is dumped as the opcode stream PROTO EMPTY_LIST, then   *)
(* its items (one item and APPEND, or MARK, the items and APPENDS), then   *)
(* STOP.  Loading runs the stream on the unpickler's stack; a stream that  *)
(* ends before STOP raises (EOFError), as does a malformed one.            *)
(***************************************************************************)
PickleItems(data) == [i \in 1..Len(data) |-> [op |-> "OBJ", arg |-> data[i]]]

pickle_dump(data) ==
    <<[op |-> "PROTO"], [op |-> "EMPTY_LIST"]>>
    \o (CASE Len(data) = 0 -> <<>>
          [] Len(data) = 1 -> PickleItems(data) \o <<[op |-> "APPEND"]>>
          [] OTHER -> <<[op |-> "MARK"]>> \o PickleItems(data) \o <<[op |-> "APPENDS"]>>)
    \o <<[op |-> "STOP"]>>

Raised == [raised |-> TRUE]
Returned(v) == [raised |-> FALSE, value |-> v]

\* the items above the topmost mark of the stack, and the position of that mark
RECURSIVE TopMark(_, _)
TopMark(stack, i) ==
    IF i = 0 THEN 0
    ELSE IF stack[i].kind = "mark" THEN i
    ELSE TopMark(stack, i - 1)

RECURSIVE Unpickle(_, _, _)
Unpickle(bytes, pos, stack) ==
    IF pos > Len(bytes) THEN Raised
    ELSE LET o == bytes[pos] n == Len(stack) IN
      CASE o.op = "PROTO" -> Unpickle(bytes, pos + 1, stack)
        [] o.op = "EMPTY_LIST" ->
             Unpickle(bytes, pos + 1, Append(stack, [kind |-> "list", items |-> <<>>]))
        [] o.op = "MARK" -> Unpickle(bytes, pos + 1, Append(stack, [kind |-> "mark"]))
        [] o.op = "OBJ" ->
             Unpickle(bytes, pos + 1, Append(stack, [kind |-> "obj", items |-> <<o.arg>>]))
        [] o.op = "APPEND" ->
             IF n < 2 \/ stack[n].kind # "obj" \/ stack[n - 1].kind # "list" THEN Raised
             ELSE Unpickle(bytes, pos + 1,
                    Append(SubSeq(stack, 1, n - 2),
                           [kind |-> "list", items |-> stack[n - 1].items \o stack[n].items]))
        [] o.op = "APPENDS" ->
             LET m == TopMark(stack, n) IN
             IF m < 2 \/ stack[m - 1].kind # "list" THEN Raised
             ELSE Unpickle(bytes, pos + 1,
                    Append(SubSeq(stack, 1, m - 2),
                           [kind |-> "list",
                            items |-> stack[m - 1].items
                                      \o [i \in 1..(n - m) |-> stack[m + i].items[1]]]))
        [] o.op = "STOP" ->
             IF n = 0 \/ stack[n].kind # "list" THEN Raised ELSE Returned(stack[n].items)
        [] OTHER -> Raised

pickle_load(bytes) == Unpickle(bytes, 1, <<>>)

(***************************************************************************)
(* The disk cache of ScoreHistogramGenerator.                              *)
(***************************************************************************)
all_key == "all_submissions_ICLR.cc/2026/Conference"
ac_key == "ac_submissions_ICLR.cc/2026/Conference_~AC_User1"
CacheKeys == {all_key, ac_key}

\* hashlib.md5(cache_key.encode()).hexdigest() of the keys above
md5_hexdigest(cache_key) ==
    CASE cache_key = all_key -> "c38bda0cee3492a1eebded5c37e0717b"
      [] cache_key = ac_key -> "e9e2589f55d7b320720dfc3130dd71a3"
      [] cache_key = "scores_ICLR.cc/2026/Conference_initial_False_-3550055125485641917"
            -> "8ad5c938175413883d866c79a6a35895"
      [] cache_key = "scores_ICLR.cc/2026/Conference_initial_True_-3550055125485641917"
            -> "cedadeab27e8d37bb88d87a83530d7ca"
      [] cache_key = "scores_ICLR.cc/2026/Conference_final_False_-3550055125485641917"
            -> "e51ca6d1cfe9049c98cfe42b3cbeb8c1"
      [] cache_key = "scores_ICLR.cc/2026/Conference_final_True_-3550055125485641917"
            -> "bf72c4d4e9559a98ea1045ae997e77b0"

\* mutant: the file name does not depend on the key
get_cache_path_OneFile(cache_key) ==
    [dir |-> "histogram_cache", name |-> md5_hexdigest(all_key), ext |-> ".pkl"]

_get_cache_path(cache_key) ==
    [dir |-> "histogram_cache", name |-> md5_hexdigest(cache_key), ext |-> ".pkl"]

CachePaths == {_get_cache_path(k) : k \in CacheKeys}

NoFile == [exists |-> FALSE]
File(bytes) == [exists |-> TRUE, bytes |-> bytes]

\* what a read of the file can do: succeed, or raise (an I/O error)
ReadFaults == {"none", "io_error"}
\* what a write can do: succeed, fail in open() (the file is untouched), or fail
\* in pickle.dump after open(path, 'wb') truncated the file and `keep` items of
\* the stream reached it
WriteFaults ==
    {[fail |-> "none", keep |-> 0], [fail |-> "open", keep |-> 0]}
    \cup {[fail |-> "dump", keep |-> k] : k \in {0, MaxKeep}}
NoWriteFault == [fail |-> "none", keep |-> 0]

\* mutant: a refresh still reads the cache
load_cache_IgnoresRefresh(self, files, cache_key, rf) ==
    IF ~self.use_cache THEN None
    ELSE IF files[_get_cache_path(cache_key)].exists /\ rf = "none"
              /\ ~pickle_load(files[_get_cache_path(cache_key)].bytes).raised
         THEN Some(pickle_load(files[_get_cache_path(cache_key)].bytes).value)
         ELSE None

_load_cache(self, files, cache_key, rf) ==
    IF ~self.use_cache \/ self.refresh_cache THEN None
    ELSE LET cache_path == _get_cache_path(cache_key) IN
         IF files[cache_path].exists
         THEN IF rf = "io_error" THEN None
              ELSE LET r == pickle_load(files[cache_path].bytes) IN
                   IF r.raised THEN None ELSE Some(r.value)
         ELSE None

_save_cache(self, files, cache_key, data, wf) ==
    IF ~self.use_cache THEN files
    ELSE LET cache_path == _get_cache_path(cache_key)
             stream == pickle_dump(data) IN
         CASE wf.fail = "none" -> [files EXCEPT ![cache_path] = File(stream)]
           [] wf.fail = "open" -> files
           [] wf.fail = "dump" ->
                [files EXCEPT ![cache_path] =
                    File(SubSeq(stream, 1, Min(wf.keep, Len(stream) - 1)))]

(***************************************************************************)
(* The remote source.  A submission note carries the fields the program    *)
(* reads; get_notes(invitation, details, limit, offset) of the API client  *)
(* answers the page of the source's submissions at that offset.            *)
(***************************************************************************)
Submission(n) ==
    [number |-> n, forum |-> n,
     authorids |-> <<>>, authors |-> <<>>, venue |-> <<>>, readers |-> {}]

Source(n) == [i \in 1..n |-> Submission(i)]

Numbers(subs) == [i \in 1..Len(subs) |-> subs[i].number]

get_notes_page(source, limit, offset) ==
    SubSeq(source, offset + 1, Min(offset + limit, Len(source)))

(***************************************************************************)
(* get_all_submissions: the pagination loop.  The request number failAt    *)
(* (0: none) raises in the client; nothing in the loop catches it.         *)
(***************************************************************************)
\* mutant: the loop does not stop at a short page, only at an empty one
RECURSIVE FetchAllLoop_NoShortStop(_, _, _, _, _, _)
FetchAllLoop_NoShortStop(source, batch_size, failAt, all_submissions, offset, requests) ==
    IF Len(requests) + 1 = failAt
    THEN [raised |-> TRUE, all_submissions |-> all_submissions,
          requests |-> Append(requests, offset)]
    ELSE LET submissions_batch == get_notes_page(source, batch_size, offset)
             reqs == Append(requests, offset) IN
         IF Len(submissions_batch) = 0
         THEN [raised |-> FALSE, all_submissions |-> all_submissions, requests |-> reqs]
         ELSE FetchAllLoop_NoShortStop(source, batch_size, failAt,
                                       all_submissions \o submissions_batch,
                                       offset + batch_size, reqs)

RECURSIVE FetchAllLoop(_, _, _, _, _, _)
FetchAllLoop(source, batch_size, failAt, all_submissions, offset, requests) ==
    IF Len(requests) + 1 = failAt
    THEN [raised |-> TRUE, all_submissions |-> all_submissions,
          requests |-> Append(requests, offset)]
    ELSE LET submissions_batch == get_notes_page(source, batch_size, offset)
             reqs == Append(requests, offset) IN
         IF Len(submissions_batch) = 0
         THEN [raised |-> FALSE, all_submissions |-> all_submissions, requests |-> reqs]
         ELSE IF Len(submissions_batch) < batch_size
         THEN [raised |-> FALSE, all_submissions |-> all_submissions \o submissions_batch,
               requests |-> reqs]
         ELSE FetchAllLoop(source, batch_size, failAt,
                           all_submissions \o submissions_batch,
                           offset + batch_size, reqs)

\* the outcome of a retrieval: raised, or the value returned; the files it
\* leaves; the page offsets it requested; whether it reached _save_cache
get_all_submissions(self, files, source, batch_size, failAt, rf, wf) ==
    LET cache_key == all_key
        cached_data == _load_cache(self, files, cache_key, rf) IN
    IF ~cached_data.isNone
    THEN [raised |-> FALSE, value |-> cached_data.val, files |-> files,
          requests |-> <<>>, saved |-> FALSE]
    ELSE LET f == FetchAllLoop(source, batch_size, failAt, <<>>, 0, <<>>) IN
         IF f.raised
         THEN [raised |-> TRUE, value |-> <<>>, files |-> files,
               requests |-> f.requests, saved |-> FALSE]
         ELSE [raised |-> FALSE, value |-> f.all_submissions,
               files |-> _save_cache(self, files, cache_key, f.all_submissions, wf),
               requests |-> f.requests, saved |-> self.use_cache]

(***************************************************************************)
(* Strings that the program takes apart are sequences of characters.       *)
(***************************************************************************)
RECURSIVE lstrip(_, _)
lstrip(str, ch) ==
    IF Len(str) > 0 /\ str[1] = ch THEN lstrip(Tail(str), ch) ELSE str

LowerChar(c) ==
    CASE c = "A" -> "a" [] c = "B" -> "b" [] OTHER -> c

lower(str) == [i \in 1..Len(str) |-> LowerChar(str[i])]

\* Python's `sub in str` on strings
IsSubstring(sub, str) ==
    \E i \in 0..(Len(str) - Len(sub)) : SubSeq(str, i + 1, i + Len(sub)) = sub

endswith(str, suffix) ==
    /\ Len(str) >= Len(suffix)
    /\ SubSeq(str, Len(str) - Len(suffix) + 1, Len(str)) = suffix

\* the place of the first occurrence of sep in str (0: none)
FirstIndex(str, sep) ==
    IF IsSubstring(sep, str)
    THEN CHOOSE i \in 1..(Len(str) - Len(sep) + 1) :
            /\ SubSeq(str, i, i + Len(sep) - 1) = sep
            /\ \A j \in 1..(i - 1) : SubSeq(str, j, j + Len(sep) - 1) # sep
    ELSE 0

\* str.split(sep)
RECURSIVE split(_, _)
split(str, sep) ==
    LET i == FirstIndex(str, sep) IN
    IF i = 0 THEN <<str>>
    ELSE <<SubSeq(str, 1, i - 1)>> \o split(SubSeq(str, i + Len(sep), Len(str)), sep)

(***************************************************************************)
(* Forum notes and ratings.  An invitation id                              *)
(* '{conference_id}/Submission{number}/-/{name}' is the record of its      *)
(* parts.  A rating extractor of the configuration answers the review's    *)
(* rating, or None when the review carries none.                           *)
(***************************************************************************)
Invitation(number, name) == [conf |-> conference_id, number |-> number, name |-> name]

RATING_EXTRACTOR(review) == review.rating
FINAL_RATING_EXTRACTOR(review) == review.final_rating

RECURSIVE Sum(_)
Sum(seq) == IF Len(seq) = 0 THEN 0 ELSE seq[1] + Sum(Tail(seq))

ReviewsOf(forum_notes, number) ==
    LET invitation_str == Invitation(number, "Official_Review")
        IsReview(note) == invitation_str \in Range(note.invitations) IN
    SelectSeq(forum_notes, IsReview)

\* the extractor applied to each review, in order (None where absent)
Extracted(reviews, extractor) ==
    [i \in 1..Len(reviews) |->
        IF extractor = "RATING_EXTRACTOR" THEN RATING_EXTRACTOR(reviews[i])
        ELSE FINAL_RATING_EXTRACTOR(reviews[i])]

\* mutant: an absent rating counts as 0
NotNone_NoneIsZero(scores) ==
    [i \in 1..Len(scores) |-> IF scores[i].isNone THEN 0 ELSE scores[i].val]

\* [s for s in scores if s is not None], as numbers
NotNone(scores) ==
    LET Present(s) == ~s.isNone
        kept == SelectSeq(scores, Present) IN
    [i \in 1..Len(kept) |-> kept[i].val]

\* round(total / count, 2) for total >= 0, in hundredths: the nearest hundredth,
\* a tie going to the even one
Round2(total, count) ==
    LET q == (100 * total) \div count
        r == (100 * total) % count IN
    IF 2 * r < count THEN q
    ELSE IF 2 * r > count THEN q + 1
    ELSE IF q % 2 = 0 THEN q ELSE q + 1

(***************************************************************************)
(* Note classifiers (NOTE_EXTRACTORS of a conference).  A note's content   *)
(* is the set of its keys, each entry being {'value': ...}; a writer or    *)
(* reader is a group id, the sequence of its pieces.                       *)
(***************************************************************************)
Conferences == {"ICML2025", "ICCV2025", "NeurIPS2025", "ICLR2026"}

\* the keys of the dict, in its order
NOTE_EXTRACTORS(conference) ==
    CASE conference = "ICML2025" -> <<>>
      [] conference = "ICCV2025" -> <<"review", "comment", "rebuttal", "ac_letter">>
      [] OTHER -> <<"review", "final_justification", "other_comment",
                    "discussion_comment", "rebuttal", "rebuttal_acknowledgement",
                    "ac_letter_author", "ac_letter_ac">>

\* any(invitation.endswith(name) for invitation in note.invitations)
InvitedAs(note, name) ==
    \E i \in 1..Len(note.invitations) : note.invitations[i].name = name

\* id.split('/')[-1].startswith(prefix), prefix one piece
LastStartsWith(id, prefix) ==
    LET parts == split(id, <<"/">>)
        tail == parts[Len(parts)] IN
    Len(tail) > 0 /\ tail[1] = prefix

\* any(w for w in ids if w.split('/')[-1].startswith(prefix))
AnyOf(ids, prefix) ==
    \E i \in 1..Len(ids) : Len(ids[i]) > 0 /\ LastStartsWith(ids[i], prefix)

\* NOTE_EXTRACTORS[key](note)
NoteExtractor(conference, key, note) ==
    IF conference = "ICCV2025"
    THEN CASE key = "review" -> "preliminary_recommendation" \in note.content
           [] key = "comment" -> "comment" \in note.content
           [] key = "rebuttal" -> "pdf" \in note.content /\ "abstract" \notin note.content
           [] key = "ac_letter" -> /\ "pdf" \in note.content
                                   /\ "abstract" \notin note.content
                                   /\ "confidential_comments_to_AC" \in note.content
    ELSE CASE key = "review" -> InvitedAs(note, "Official_Review")
           [] key = "final_justification" ->
                 /\ "final_justification" \in note.content
                 /\ InvitedAs(note, "Official_Review")
           [] key = "other_comment" ->
                 /\ InvitedAs(note, "Official_Comment")
                 /\ ~(AnyOf(note.writers, "Reviewer") /\ AnyOf(note.readers, "Author"))
           [] key = "discussion_comment" ->
                 /\ InvitedAs(note, "Official_Comment")
                 /\ AnyOf(note.writers, "Reviewer")
                 /\ AnyOf(note.readers, "Author")
           [] key = "rebuttal" -> InvitedAs(note, "Rebuttal")
           [] key = "rebuttal_acknowledgement" -> InvitedAs(note, "Mandatory_Acknowledgement")
           [] key = "ac_letter_author" ->
                 /\ InvitedAs(note, "Author_AC_Confidential_Comment")
                 /\ AnyOf(note.writers, "Author")
           [] key = "ac_letter_ac" ->
                 /\ InvitedAs(note, "Author_AC_Confidential_Comment")
                 /\ AnyOf(note.writers, "Area_Chair")

\* the loop over the forum notes and the classifiers: note_counts, as the
\* counts of the keys in the dict's order, then others_count
NoteCounts(forum_notes, conference) ==
    LET keys == NOTE_EXTRACTORS(conference)
        Matched(k) == {i \in 1..Len(forum_notes) :
                          NoteExtractor(conference, keys[k], forum_notes[i])}
        counts == [k \in 1..Len(keys) |-> Cardinality(Matched(k))] IN
    [counts |-> counts, others_count |-> Len(forum_notes) - Sum(counts)]

\* a score cell of the row: a number, or ''
Blank == [blank |-> TRUE]
Number(n) == [blank |-> FALSE, val |-> n]

NA == [na |-> TRUE]
Hundredths(h) == [na |-> FALSE, hundredths |-> h]

(***************************************************************************)
(* get_author_papers_list (list_author_papers.py).                         *)
(***************************************************************************)
\* the pagination loop: the request number failAt (0: none) raises, and the
\* loop's except clause logs it and breaks
RECURSIVE FetchAuthorLoop(_, _, _, _, _, _)
FetchAuthorLoop(source, batch_size, failAt, all_submissions, offset, requests) ==
    IF Len(requests) + 1 = failAt
    THEN [raised |-> FALSE, all_submissions |-> all_submissions,
          requests |-> Append(requests, offset)]
    ELSE LET submissions_batch == get_notes_page(source, batch_size, offset)
             reqs == Append(requests, offset) IN
         IF Len(submissions_batch) = 0
         THEN [raised |-> FALSE, all_submissions |-> all_submissions, requests |-> reqs]
         ELSE IF Len(submissions_batch) < batch_size
         THEN [raised |-> FALSE, all_submissions |-> all_submissions \o submissions_batch,
               requests |-> reqs]
         ELSE FetchAuthorLoop(source, batch_size, failAt,
                              all_submissions \o submissions_batch,
                              offset + batch_size, reqs)

\* profile: Raised, Returned(None) or Returned(Some(id))
ResolveAuthor(author_identifier, profile) ==
    IF profile.raised THEN author_identifier
    ELSE IF profile.value.isNone THEN author_identifier
    ELSE profile.value.val

IsAuthor(author_id, paper) ==
    LET normalized_author_id == lstrip(author_id, "~")
        byId == \E i \in 1..Len(paper.authorids) :
                    \/ author_id = paper.authorids[i]
                    \/ normalized_author_id = lstrip(paper.authorids[i], "~")
        byName == \E i \in 1..Len(paper.authors) :
                    \/ lower(author_id) = lower(paper.authors[i])
                    \/ IsSubstring(author_id, paper.authors[i]) IN
    byId \/ byName

\* the row of one matched paper
AuthorRow(paper, forum_notes, has_rating, has_final_rating, note_extractors) ==
    LET reviews == ReviewsOf(forum_notes, paper.number)
        scores == IF has_rating THEN NotNone(Extracted(reviews, "RATING_EXTRACTOR")) ELSE <<>>
        final_scores == IF has_final_rating
                        THEN Extracted(reviews, "FINAL_RATING_EXTRACTOR") ELSE <<>>
        final_scores_filtered == NotNone(final_scores)
        note_counts == NoteCounts(forum_notes, note_extractors) IN
    [paper_number |-> paper.number,
     withdrawn |-> "Withdrawn" \in Range(paper.venue),
     num_reviewers |-> Len(reviews),
     avg_score |-> IF Len(scores) > 0
                   THEN Hundredths(Round2(Sum(scores), Len(scores))) ELSE NA,
     scores |-> scores,
     avg_final_score |-> IF Len(final_scores_filtered) > 0
                         THEN Hundredths(Round2(Sum(final_scores_filtered),
                                                Len(final_scores_filtered)))
                         ELSE NA,
     final_scores |-> final_scores,
     reviewer_score |-> [k \in 1..5 |->
                            IF Len(scores) >= k THEN Number(scores[k]) ELSE Blank],
     reviewer_final_score |-> [k \in 1..5 |->
                                  IF Len(final_scores) >= k /\ ~final_scores[k].isNone
                                  THEN Number(final_scores[k].val) ELSE Blank],
     note_counts |-> note_counts.counts,
     others_count |-> note_counts.others_count]

\* the loop over all_submissions from position i: the forum request number
\* notesFailAt (0: none) raises, and nothing catches it
RECURSIVE AuthorRows(_, _, _, _, _, _, _, _, _, _)
AuthorRows(all_submissions, i, author_id, notes_of, notesFailAt, has_rating, has_final_rating, note_extractors, paper_data, forums) ==
    IF i > Len(all_submissions)
    THEN [raised |-> FALSE, paper_data |-> paper_data, forums |-> forums]
    ELSE LET paper == all_submissions[i] IN
         IF ~IsAuthor(author_id, paper)
         THEN AuthorRows(all_submissions, i + 1, author_id, notes_of, notesFailAt,
                         has_rating, has_final_rating, note_extractors, paper_data,
                         forums)
         ELSE IF Len(forums) + 1 = notesFailAt
         THEN [raised |-> TRUE, paper_data |-> paper_data,
               forums |-> Append(forums, paper.forum)]
         ELSE AuthorRows(all_submissions, i + 1, author_id, notes_of, notesFailAt,
                         has_rating, has_final_rating, note_extractors,
                         Append(paper_data,
                                AuthorRow(paper, notes_of[paper.forum],
                                          has_rating, has_final_rating,
                                          note_extractors)),
                         Append(forums, paper.forum))

\* cfg: [has_rating, has_final_rating], the rating extractors the configuration
\* has, and note_extractors, the conference whose NOTE_EXTRACTORS it has;
\* faults: [failAt, notesFailAt]
get_author_papers_list(author_identifier, profile, source, notes_of, batch_size, cfg, faults) ==
    LET author_id == ResolveAuthor(author_identifier, profile)
        f == FetchAuthorLoop(source, batch_size, faults.failAt, <<>>, 0, <<>>)
        r == AuthorRows(f.all_submissions, 1, author_id, notes_of, faults.notesFailAt,
                        cfg.has_rating, cfg.has_final_rating, cfg.note_extractors,
                        <<>>, <<>>) IN
    [raised |-> r.raised, value |-> r.paper_data,
     all_submissions |-> f.all_submissions, requests |-> f.requests,
     forums |-> r.forums]

(***************************************************************************)
(* Group ids.  An id is the sequence of the pieces the program's substring *)
(* tests can tell apart: the venue id, "/", "Submission", the digits of a  *)
(* paper number, "Area_Chair", "_", "s", an anonymous code, a role prefix. *)
(***************************************************************************)
DigitChars == {"0", "1", "2", "3", "4", "5", "6", "7", "8", "9"}
DigitVal(c) ==
    CASE c = "0" -> 0 [] c = "1" -> 1 [] c = "2" -> 2 [] c = "3" -> 3 [] c = "4" -> 4
      [] c = "5" -> 5 [] c = "6" -> 6 [] c = "7" -> 7 [] c = "8" -> 8 [] c = "9" -> 9
DigitChar(d) ==
    CASE d = 0 -> "0" [] d = 1 -> "1" [] d = 2 -> "2" [] d = 3 -> "3" [] d = 4 -> "4"
      [] d = 5 -> "5" [] d = 6 -> "6" [] d = 7 -> "7" [] d = 8 -> "8" [] d = 9 -> "9"

RECURSIVE DecimalValue(_, _)
DecimalValue(str, acc) ==
    IF Len(str) = 0 THEN acc ELSE DecimalValue(Tail(str), 10 * acc + DigitVal(str[1]))

\* int(str) of a string of decimal digits; anything else raises ValueError
int(str) ==
    IF Len(str) > 0 /\ \A i \in 1..Len(str) : str[i] \in DigitChars
    THEN Returned(DecimalValue(str, 0))
    ELSE Raised

\* str(n) of a number n >= 0
RECURSIVE DecimalDigits(_)
DecimalDigits(n) ==
    IF n < 10 THEN <<DigitChar(n)>> ELSE Append(DecimalDigits(n \div 10), DigitChar(n % 10))

conf == <<conference_id>>

\* f'{conference_id}/Submission{number}/Area_Chairs'
PoolGroupOf(number) ==
    conf \o <<"/", "Submission">> \o DecimalDigits(number) \o <<"/", "Area_Chair", "s">>

\* mutant: descending order
RECURSIVE sorted_Descending(_)
sorted_Descending(numbers) ==
    IF numbers = {} THEN <<>>
    ELSE LET m == CHOOSE x \in numbers : \A y \in numbers : x >= y IN
         <<m>> \o sorted_Descending(numbers \ {m})

\* sorted(numbers)
RECURSIVE sorted(_)
sorted(numbers) ==
    IF numbers = {} THEN <<>>
    ELSE LET m == CHOOSE x \in numbers : \A y \in numbers : x <= y IN
         <<m>> \o sorted(numbers \ {m})

(***************************************************************************)
(* get_ac_assigned_submissions (histogram_scores.py).                      *)
(***************************************************************************)
\* mutant: the test for '/Area_Chair_' leaves the underscore out
IsSpecificGroup_NoUnderscore(ac_group) ==
    /\ IsSubstring(conf, ac_group)
    /\ IsSubstring(<<"/", "Submission">>, ac_group)
    /\ IsSubstring(<<"/", "Area_Chair">>, ac_group)

IsSpecificGroup(ac_group) ==
    /\ IsSubstring(conf, ac_group)
    /\ IsSubstring(<<"/", "Submission">>, ac_group)
    /\ IsSubstring(<<"/", "Area_Chair", "_">>, ac_group)

IsPoolGroup(ac_group) ==
    /\ ~IsSpecificGroup(ac_group)
    /\ IsSubstring(conf, ac_group)
    /\ IsSubstring(<<"/", "Submission">>, ac_group)
    /\ endswith(ac_group, <<"/", "Area_Chair", "s">>)

\* the paper number a specific group embeds, or Raised (the ValueError passed over)
PaperNumberOf(ac_group) ==
    LET parts == split(ac_group, <<"/", "Submission">>) IN
    IF Len(parts) > 1 THEN int(split(parts[2], <<"/">>)[1]) ELSE Raised

\* the loop over ac_groups
ClassifyGroups(ac_groups) ==
    LET specific_ac_groups == SelectSeq(ac_groups, IsSpecificGroup)
        pool_ac_groups == SelectSeq(ac_groups, IsPoolGroup) IN
    [specific_ac_groups |-> specific_ac_groups,
     pool_ac_groups |-> pool_ac_groups,
     assigned_paper_numbers |->
        {PaperNumberOf(g).value : g \in {h \in Range(specific_ac_groups) :
                                            ~PaperNumberOf(h).raised}}]

\* get_notes(invitation=..., number=paper_num): the submissions of that number
NotesOfNumber(source, paper_num) ==
    LET HasNumber(paper) == paper.number = paper_num IN SelectSeq(source, HasNumber)

\* the loop that fetches the assigned papers; the request number fault.at raises:
\* "caught" an error of the except clause (ValueError, KeyError, AttributeError),
\* "uncaught" any other exception of the client
RECURSIVE FetchAssigned(_, _, _, _, _, _)
FetchAssigned(sorted_paper_nums, i, source, fault, submissions, fetched) ==
    IF i > Len(sorted_paper_nums)
    THEN [raised |-> FALSE, submissions |-> submissions, fetched |-> fetched]
    ELSE LET paper_num == sorted_paper_nums[i]
             reqs == Append(fetched, paper_num) IN
         IF fault.kind # "none" /\ fault.at = i
         THEN IF fault.kind = "caught"
              THEN FetchAssigned(sorted_paper_nums, i + 1, source, fault, submissions, reqs)
              ELSE [raised |-> TRUE, submissions |-> submissions, fetched |-> reqs]
         ELSE FetchAssigned(sorted_paper_nums, i + 1, source, fault,
                            submissions \o NotesOfNumber(source, paper_num), reqs)

\* mutant: the paper's own pool group is not asked for
ReadByPool_AnyPool(paper, pool_ac_groups) ==
    \E i \in 1..Len(pool_ac_groups) : pool_ac_groups[i] \in paper.readers

\* the filter of the fallback
ReadByPool(paper, pool_ac_groups) ==
    /\ PoolGroupOf(paper.number) \in paper.readers
    /\ \E i \in 1..Len(pool_ac_groups) : pool_ac_groups[i] \in paper.readers

\* env: [members, profile_id, user_groups, source, batch_size, fault]
get_ac_assigned_submissions(self, files, env) ==
    LET cache_key == ac_key
        cached_data == _load_cache(self, files, cache_key, "none")
        none == [raised |-> FALSE, value |-> <<>>, files |-> files, strategy |-> "none",
                 assigned |-> {}, fetched |-> <<>>, saved |-> FALSE] IN
    IF ~cached_data.isNone THEN [none EXCEPT !.value = cached_data.val]
    ELSE IF Len(env.members) = 0 THEN none
    ELSE IF env.profile_id \notin Range(env.members) THEN none
    ELSE
      LET HasAreaChair(g) == IsSubstring(<<"Area_Chair">>, g)
          ac_groups == SelectSeq(env.user_groups, HasAreaChair)
          c == ClassifyGroups(ac_groups)
          use_specific_assignment == Len(c.specific_ac_groups) > 0 IN
      IF use_specific_assignment
      THEN LET f == FetchAssigned(sorted(c.assigned_paper_numbers), 1, env.source,
                                  env.fault, <<>>, <<>>) IN
           [raised |-> f.raised, value |-> f.submissions,
            files |-> IF f.raised THEN files
                      ELSE _save_cache(self, files, cache_key, f.submissions, NoWriteFault),
            strategy |-> "specific", assigned |-> c.assigned_paper_numbers,
            fetched |-> f.fetched, saved |-> ~f.raised /\ self.use_cache]
      ELSE LET a == get_all_submissions(self, files, env.source, env.batch_size,
                        IF env.fault.kind = "none" THEN 0 ELSE env.fault.at,
                        "none", NoWriteFault)
               Mine(paper) == ReadByPool(paper, c.pool_ac_groups)
               submissions == SelectSeq(a.value, Mine) IN
           [raised |-> a.raised, value |-> IF a.raised THEN <<>> ELSE submissions,
            files |-> IF a.raised THEN a.files
                      ELSE _save_cache(self, a.files, cache_key, submissions, NoWriteFault),
            strategy |-> "fallback", assigned |-> {},
            fetched |-> <<>>, saved |-> ~a.raised /\ self.use_cache]

(***************************************************************************)
(* extract_average_scores (histogram_scores.py).                           *)
(***************************************************************************)
\* the venue text of a submission, word by word
VenueOf(withdrawn) ==
    IF withdrawn THEN <<"ICLR", "2026", "Conference", "Withdrawn", "Submission">>
    ELSE <<"ICLR", "2026", "Conference", "Submission">>

IsWithdrawn(paper) == "Withdrawn" \in Range(paper.venue)

\* str(True), str(False)
BoolText(b) == IF b THEN "True" ELSE "False"

\* hash(paper_numbers) of a tuple of ints (CPython, 64 bits), as f"{...}" writes it
TupleHashText(paper_numbers) ==
    CASE paper_numbers = <<>> -> "5740354900026072187"
      [] paper_numbers = <<1>> -> "-6644214454873602895"
      [] paper_numbers = <<1, 2>> -> "-3550055125485641917"

\* f"scores_{conference_id}_{score_type}_{exclude_withdrawn}_{hash(paper_numbers)}"
scores_cache_key(score_type, exclude_withdrawn, paper_numbers) ==
    "scores_" \o conference_id \o "_" \o score_type \o "_" \o BoolText(exclude_withdrawn)
        \o "_" \o TupleHashText(paper_numbers)

\* sorted(list) of numbers, repeats kept
RECURSIVE sorted_list(_)
sorted_list(numbers) ==
    IF Len(numbers) = 0 THEN <<>>
    ELSE LET m == CHOOSE i \in 1..Len(numbers) : \A j \in 1..Len(numbers) :
                     numbers[i] <= numbers[j]
         IN <<numbers[m]>>
            \o sorted_list(SubSeq(numbers, 1, m - 1) \o SubSeq(numbers, m + 1, Len(numbers)))

ScoreTypes == {"initial", "final"}

\* an average sum(scores) / len(scores), as the fraction
Average(scores) == [num |-> Sum(scores), den |-> Len(scores)]

\* the loop over submissions from position i; CONFERENCE_INFO: [has_rating,
\* has_final_rating]; the forum request number notesFailAt (0: none) raises,
\* and nothing catches it
RECURSIVE ScoreLoop(_, _, _, _, _, _, _, _, _)
ScoreLoop(submissions, i, score_type, exclude_withdrawn, notes_of, CONFERENCE_INFO, notesFailAt, avg_scores, forums) ==
    IF i > Len(submissions)
    THEN [raised |-> FALSE, avg_scores |-> avg_scores, forums |-> forums]
    ELSE
      LET paper == submissions[i]
          skip == ScoreLoop(submissions, i + 1, score_type, exclude_withdrawn, notes_of,
                            CONFERENCE_INFO, notesFailAt, avg_scores, forums)
          asked == Append(forums, paper.forum)
          continue == ScoreLoop(submissions, i + 1, score_type, exclude_withdrawn,
                                notes_of, CONFERENCE_INFO, notesFailAt, avg_scores, asked)
          reviews == ReviewsOf(notes_of[paper.forum], paper.number)
          scores == IF score_type = "initial"
                    THEN NotNone(Extracted(reviews, "RATING_EXTRACTOR"))
                    ELSE NotNone(Extracted(reviews, "FINAL_RATING_EXTRACTOR")) IN
      IF exclude_withdrawn /\ IsWithdrawn(paper) THEN skip
      ELSE IF Len(forums) + 1 = notesFailAt
      THEN [raised |-> TRUE, avg_scores |-> avg_scores, forums |-> asked]
      ELSE IF Len(reviews) = 0 THEN continue
      ELSE IF score_type = "initial" /\ ~CONFERENCE_INFO.has_rating THEN continue
      ELSE IF score_type = "final" /\ ~CONFERENCE_INFO.has_final_rating THEN continue
      ELSE IF score_type \notin ScoreTypes
      THEN [raised |-> TRUE, avg_scores |-> avg_scores, forums |-> asked]
      ELSE IF Len(scores) = 0 THEN continue
      ELSE ScoreLoop(submissions, i + 1, score_type, exclude_withdrawn, notes_of,
                     CONFERENCE_INFO, notesFailAt,
                     Append(avg_scores, Average(scores)), asked)

\* mutant: the averages are returned without being saved
extract_average_scores_NoSave(self, files, env) ==
    LET r == ScoreLoop(env.submissions, 1, env.score_type, env.exclude_withdrawn,
                       env.notes_of, env.CONFERENCE_INFO, env.notesFailAt, <<>>, <<>>) IN
    [raised |-> r.raised, value |-> IF r.raised THEN <<>> ELSE r.avg_scores,
     files |-> files, forums |-> r.forums, saved |-> FALSE]

\* env: [submissions, score_type, exclude_withdrawn, notes_of, CONFERENCE_INFO,
\* notesFailAt]
extract_average_scores(self, files, env) ==
    LET paper_numbers == sorted_list(Numbers(env.submissions))
        cache_key == scores_cache_key(env.score_type, env.exclude_withdrawn,
                                      paper_numbers)
        cached_data == _load_cache(self, files, cache_key, "none") IN
    IF ~cached_data.isNone
    THEN [raised |-> FALSE, value |-> cached_data.val, files |-> files,
          forums |-> <<>>, saved |-> FALSE]
    ELSE LET r == ScoreLoop(env.submissions, 1, env.score_type, env.exclude_withdrawn,
                            env.notes_of, env.CONFERENCE_INFO, env.notesFailAt,
                            <<>>, <<>>) IN
         IF r.raised
         THEN [raised |-> TRUE, value |-> <<>>, files |-> files,
               forums |-> r.forums, saved |-> FALSE]
         ELSE [raised |-> FALSE, value |-> r.avg_scores,
               files |-> _save_cache(self, files, cache_key, r.avg_scores, NoWriteFault),
               forums |-> r.forums, saved |-> self.use_cache]

(***************************************************************************)
(* The spreadsheet (utils/gsheet.py).  GSheetWithHeader extends the        *)
(* GSheetManager of the gsheet_manager package: a snapshot of the remote   *)
(* worksheet (local_sheet_values), a buffer of staged cells, and the       *)
(* decorator batch_sync_with_remote that pulls the snapshot before the     *)
(* decorated method and flushes the buffer after it.  Rows and columns are *)
(* counted from 0 as in the code; a cell is a string, "" when empty.       *)
(***************************************************************************)
MaxCols == 4       \* columns of the header row, at most
MaxW == 2          \* names in a written header list, at most

HeaderNames == {"A", "B", "C"}

\* a fresh object over an empty worksheet
NoSheet == [remote |-> <<>>, local_sheet_values |-> <<>>, _headers |-> None,
            buffer |-> <<>>]

\* GSheetManager.sync_from_remote: the snapshot is pulled
sync_from_remote(s) == [s EXCEPT !.local_sheet_values = s.remote]

\* GSheetManager._set_buffer_cells: a cell update is staged
_set_buffer_cells(s, python_row_idx, python_col_idx, value) ==
    [s EXCEPT !.buffer = Append(@, [row |-> python_row_idx, col |-> python_col_idx,
                                    value |-> value])]

\* Python values are strings here; an int n is written "#n", and the worksheet
\* shows it as the string of its digits
Ints == {"#1", "#2"}

Rendered(value) ==
    IF value = "#1" THEN "1" ELSE IF value = "#2" THEN "2" ELSE value

\* a worksheet with the cell (r, c) set, rows and cells in between left empty
SetCell(rows, r, c, value) ==
    LET height == IF Len(rows) > r THEN Len(rows) ELSE r + 1
        RowAt(i) == IF i <= Len(rows) THEN rows[i] ELSE <<>>
        width == IF Len(RowAt(r + 1)) > c THEN Len(RowAt(r + 1)) ELSE c + 1 IN
    [i \in 1..height |->
        IF i # r + 1 THEN RowAt(i)
        ELSE [j \in 1..width |->
                 IF j = c + 1 THEN Rendered(value)
                 ELSE IF j <= Len(RowAt(i)) THEN RowAt(i)[j] ELSE ""]]

RECURSIVE ApplyCells(_, _)
ApplyCells(rows, cells) ==
    IF Len(cells) = 0 THEN rows
    ELSE ApplyCells(SetCell(rows, cells[1].row, cells[1].col, cells[1].value),
                    Tail(cells))

\* GSheetManager.sync_to_remote: the staged cells are written, the buffer emptied
sync_to_remote(s) ==
    [s EXCEPT !.remote = ApplyCells(s.remote, s.buffer), !.buffer = <<>>]

\* the property headers: the first row of the snapshot, kept once read
headers(s) ==
    IF s._headers.isNone /\ Len(s.local_sheet_values) > 0
    THEN [s EXCEPT !._headers = Some(s.local_sheet_values[1])]
    ELSE s

clear_worksheet(s) == [s EXCEPT !.remote = <<>>, !._headers = None]

\* dict(zip(keys, values)): the pairs up to the shorter length, a repeated key
\* keeping its last value
DictOfZip(keys, values) ==
    LET n == Min(Len(keys), Len(values)) IN
    {[key |-> keys[j], value |-> values[j]] :
        j \in {i \in 1..n : \A m \in (i + 1)..n : keys[m] # keys[i]}}

\* get_data_list: the snapshot is pulled and each data row keyed by the
\* headers property, which is read when there is a data row
get_data_list(s0) ==
    LET pulled == sync_from_remote(s0)
        rows == pulled.local_sheet_values
        s == IF Len(rows) > 1 THEN headers(pulled) ELSE pulled IN
    [sheet |-> s,
     value |-> [i \in 1..(Len(rows) - 1) |-> DictOfZip(s._headers.val, rows[i + 1])]]

\* a list that is neither None nor empty
Truthy(list) == ~list.isNone /\ Len(list.val) > 0

\* list.index(x), from 0
index(list, x) == (CHOOSE i \in 1..Len(list) : list[i] = x /\ \A j \in 1..(i - 1) : list[j] # x) - 1

\* the loop over the written names from position i; _headers is the list being
\* filled (None where unfilled); an assignment past its end raises IndexError,
\* after the cell was staged
RECURSIVE WriteHeadersLoop(_, _, _, _, _, _, _, _)
WriteHeadersLoop(W, i, H, start_row_idx, overwrite, s, _headers, current_header_idx) ==
    IF i > Len(W) THEN [raised |-> FALSE, sheet |-> s, headers |-> _headers]
    ELSE IF overwrite
    THEN WriteHeadersLoop(W, i + 1, H, start_row_idx, overwrite,
                          _set_buffer_cells(s, start_row_idx, i - 1, W[i]),
                          [_headers EXCEPT ![i] = Some(W[i])], current_header_idx)
    ELSE IF Truthy(H) /\ W[i] \in Range(H.val)
    THEN WriteHeadersLoop(W, i + 1, H, start_row_idx, overwrite, s,
                          [_headers EXCEPT ![index(H.val, W[i]) + 1] = Some(W[i])],
                          current_header_idx)
    ELSE LET staged == _set_buffer_cells(s, start_row_idx, current_header_idx, W[i]) IN
         IF current_header_idx >= Len(_headers)
         THEN [raised |-> TRUE, sheet |-> staged, headers |-> _headers]
         ELSE WriteHeadersLoop(W, i + 1, H, start_row_idx, overwrite, staged,
                               [_headers EXCEPT ![current_header_idx + 1] = Some(W[i])],
                               current_header_idx + 1)

\* _write_headers(headers = W, start_row_idx, overwrite), decorated: the row
\* index and the header list it returns, the cells it staged, and the object
\* and worksheet after it; when it raises nothing is flushed
_write_headers(s0, W, start_row_idx, overwrite) ==
    LET s == headers(sync_from_remote(s0))
        H == s._headers
        current_header_idx == IF Truthy(H) THEN Len(H.val) ELSE 0
        size == IF overwrite THEN Len(W)
                ELSE Cardinality(Range(W) \cup (IF Truthy(H) THEN Range(H.val) ELSE {}))
        Failed(t) == [raised |-> TRUE, sheet |-> t, current_row_idx |-> start_row_idx,
                      headers |-> <<>>, staged |-> t.buffer] IN
    IF ~overwrite /\ H.isNone THEN Failed(s)
    ELSE IF ~overwrite /\ Len(H.val) > size THEN Failed(s)
    ELSE LET filled == [j \in 1..size |->
                           IF ~overwrite /\ j <= Len(H.val) THEN Some(H.val[j]) ELSE None]
             r == WriteHeadersLoop(W, 1, H, start_row_idx, overwrite, s, filled,
                                   current_header_idx) IN
         IF r.raised THEN Failed(r.sheet)
         ELSE [raised |-> FALSE, sheet |-> sync_to_remote(r.sheet),
               current_row_idx |-> start_row_idx + 1, headers |-> r.headers,
               staged |-> r.sheet.buffer]

\* all(row[self.headers.index(k)] == v for k, v in where_.items()) from the
\* condition j on: "yes", "no", or "raise" when a key is no header (ValueError)
\* or the row has no such cell (IndexError); where_ as its items, in order
RECURSIVE RowMatches(_, _, _, _)
RowMatches(row, H, where_, j) ==
    IF j > Len(where_) THEN "yes"
    ELSE IF where_[j].key \notin Range(H) THEN "raise"
    ELSE IF index(H, where_[j].key) + 1 > Len(row) THEN "raise"
    ELSE IF row[index(H, where_[j].key) + 1] # where_[j].value THEN "no"
    ELSE RowMatches(row, H, where_, j + 1)

\* next(i for i, row in enumerate(self.local_sheet_values) if all(...)) from
\* row i on (from 0): [found, raised, python_row_idx]
RECURSIVE LocateRow(_, _, _, _)
LocateRow(rows, H, where_, i) ==
    IF i >= Len(rows) THEN [found |-> FALSE, raised |-> FALSE, python_row_idx |-> i]
    ELSE LET m == RowMatches(rows[i + 1], H.val, where_, 1) IN
         IF m = "raise" THEN [found |-> FALSE, raised |-> TRUE, python_row_idx |-> i]
         ELSE IF m = "yes" THEN [found |-> TRUE, raised |-> FALSE, python_row_idx |-> i]
         ELSE LocateRow(rows, H, where_, i + 1)

\* mutant: the overwrite flag read the wrong way round
NoClobber_FlagInverted(current_value, value, overwrite) ==
    current_value # "" /\ current_value # value /\ overwrite

\* current_value and current_value != value and not overwrite
NoClobber(current_value, value, overwrite) ==
    current_value # "" /\ current_value # value /\ ~overwrite

\* the loop over what_.items() from item j on, for the located row
RECURSIVE WriteWhat(_, _, _, _, _, _, _)
WriteWhat(s, python_row_idx, what_, j, overwrite, log, updates_count) ==
    IF j > Len(what_)
    THEN [raised |-> FALSE, sheet |-> s, log |-> log, updates_count |-> updates_count]
    ELSE
      LET col_header == what_[j].key
          value == what_[j].value
          H == s._headers.val
          python_col_idx == index(H, col_header)
          row == s.local_sheet_values[python_row_idx + 1]
          current_value == row[python_col_idx + 1]
          Entry(what) == [what |-> what, row |-> python_row_idx, col_header |-> col_header] IN
      IF col_header \notin Range(H)
      THEN WriteWhat(s, python_row_idx, what_, j + 1, overwrite,
                     Append(log, Entry("no_column")), updates_count)
      ELSE IF python_col_idx + 1 > Len(row)
      THEN [raised |-> TRUE, sheet |-> s, log |-> log, updates_count |-> updates_count]
      ELSE IF NoClobber(current_value, value, overwrite)
      THEN WriteWhat(s, python_row_idx, what_, j + 1, overwrite,
                     Append(log, Entry("skip_non_empty")), updates_count)
      ELSE WriteWhat(_set_buffer_cells(s, python_row_idx, python_col_idx, value),
                     python_row_idx, what_, j + 1, overwrite,
                     IF current_value # "" /\ current_value # value
                     THEN Append(log, Entry("overwrite")) ELSE log,
                     updates_count + 1)

\* the loop over zip(where, what) from pair n on
RECURSIVE WriteCellsLoop(_, _, _, _, _, _, _)
WriteCellsLoop(s, where, what, n, overwrite, log, updates_count) ==
    IF n > Min(Len(where), Len(what))
    THEN [raised |-> FALSE, sheet |-> s, log |-> log, updates_count |-> updates_count]
    ELSE
      LET t == IF Len(where[n]) > 0 /\ Len(s.local_sheet_values) > 0 THEN headers(s) ELSE s
          found == LocateRow(t.local_sheet_values, t._headers, where[n], 0) IN
      IF found.raised
      THEN [raised |-> TRUE, sheet |-> t, log |-> log, updates_count |-> updates_count]
      ELSE IF ~found.found
      THEN WriteCellsLoop(t, where, what, n + 1, overwrite,
                          Append(log, [what |-> "no_row", pair |-> n]), updates_count)
      ELSE LET u == IF Len(what[n]) > 0 THEN headers(t) ELSE t
               w == WriteWhat(u, found.python_row_idx, what[n], 1, overwrite, log,
                              updates_count) IN
           IF w.raised THEN w
           ELSE WriteCellsLoop(w.sheet, where, what, n + 1, overwrite, w.log,
                               w.updates_count)

\* write_cells(where, what, overwrite), decorated: the snapshot is pulled, the
\* cells are staged, the buffer is flushed; when it raises nothing is flushed
write_cells(s0, where, what, overwrite) ==
    LET r == WriteCellsLoop(sync_from_remote(s0), where, what, 1, overwrite, <<>>, 0) IN
    IF r.raised
    THEN [raised |-> TRUE, sheet |-> r.sheet, staged |-> r.sheet.buffer, log |-> r.log,
          updates_count |-> r.updates_count]
    ELSE [raised |-> FALSE, sheet |-> sync_to_remote(r.sheet), staged |-> r.sheet.buffer,
          log |-> r.log, updates_count |-> r.updates_count]

\* what a batch can meet: nothing, staging that raises in batch k after the
\* cells of its first row were staged, or a flush of batch k that raises
NoBatchFault == [kind |-> "none", batch |-> 0]

\* the cells _write_batch stages for the row d (a dict: name -> value) from
\* header position header_idx (from 0) on; headers may hold None
RECURSIVE RowCells(_, _, _, _)
RowCells(d, headers_, python_row_idx, header_idx) ==
    IF header_idx >= Len(headers_) THEN <<>>
    ELSE LET header_name == headers_[header_idx + 1]
             rest == RowCells(d, headers_, python_row_idx, header_idx + 1) IN
         IF ~header_name.isNone /\ header_name.val \in DOMAIN d
         THEN <<[row |-> python_row_idx, col |-> header_idx, value |-> d[header_name.val]]>>
              \o rest
         ELSE rest

\* mutant: every row of the batch lands on the batch's first row
BatchCells_OneRow(data_list_batch, headers_, start_row_idx, row_idx) ==
    IF row_idx >= Len(data_list_batch) THEN <<>>
    ELSE RowCells(data_list_batch[row_idx + 1], headers_, start_row_idx, 0)
         \o IF row_idx + 1 >= Len(data_list_batch) THEN <<>>
            ELSE RowCells(data_list_batch[row_idx + 2], headers_, start_row_idx, 0)

\* the cells of the rows of a batch from row_idx (from 0) on, in staging order
RECURSIVE BatchCells(_, _, _, _)
BatchCells(data_list_batch, headers_, start_row_idx, row_idx) ==
    IF row_idx >= Len(data_list_batch) THEN <<>>
    ELSE RowCells(data_list_batch[row_idx + 1], headers_, start_row_idx + row_idx, 0)
         \o BatchCells(data_list_batch, headers_, start_row_idx, row_idx + 1)

\* _write_batch(data_list_batch, headers, start_row_idx), decorated; headers None
\* cannot be enumerated (TypeError) once a row is there; fault: "stage", "flush"
\* or "none" for this batch
_write_batch(s0, data_list_batch, headers_, start_row_idx, fault) ==
    LET s == sync_from_remote(s0)
        Failed(t) == [raised |-> TRUE, sheet |-> t, flushed |-> <<>>,
                      current_row_idx |-> start_row_idx] IN
    IF Len(data_list_batch) > 0 /\ headers_.isNone THEN Failed(s)
    ELSE LET cells == IF Len(data_list_batch) = 0 THEN <<>>
                      ELSE BatchCells(data_list_batch, headers_.val, start_row_idx, 0)
             first == IF Len(data_list_batch) = 0 THEN <<>>
                      ELSE RowCells(data_list_batch[1], headers_.val, start_row_idx, 0) IN
         IF fault = "stage" THEN Failed([s EXCEPT !.buffer = @ \o first])
         ELSE IF fault = "flush" THEN Failed([s EXCEPT !.buffer = @ \o cells])
         ELSE [raised |-> FALSE, sheet |-> sync_to_remote([s EXCEPT !.buffer = @ \o cells]),
               flushed |-> s.buffer \o cells,
               current_row_idx |-> start_row_idx + Len(data_list_batch)]

\* mutant: all the rows go out as one batch, whatever batch_size is
WriteBatches_OneBatch(s, rows, idx, batch_size, headers_, current_row_idx, fault, flushes) ==
    IF idx >= Len(rows)
    THEN [raised |-> FALSE, sheet |-> s, current_row_idx |-> current_row_idx,
          flushes |-> flushes]
    ELSE LET b == _write_batch(s, rows, headers_, current_row_idx,
                               IF fault.batch = 1 THEN fault.kind ELSE "none") IN
         [raised |-> b.raised, sheet |-> b.sheet, current_row_idx |-> b.current_row_idx,
          flushes |-> IF b.raised THEN flushes ELSE Append(flushes, b.flushed)]

\* for idx in range(0, total_rows, batch_size): current_row_idx = _write_batch(...)
RECURSIVE WriteBatches(_, _, _, _, _, _, _, _)
WriteBatches(s, rows, idx, batch_size, headers_, current_row_idx, fault, flushes) ==
    IF idx >= Len(rows)
    THEN [raised |-> FALSE, sheet |-> s, current_row_idx |-> current_row_idx,
          flushes |-> flushes]
    ELSE LET batch == SubSeq(rows, idx + 1, Min(idx + batch_size, Len(rows)))
             k == (idx \div batch_size) + 1
             b == _write_batch(s, batch, headers_, current_row_idx,
                               IF fault.batch = k THEN fault.kind ELSE "none") IN
         IF b.raised
         THEN [raised |-> TRUE, sheet |-> b.sheet, current_row_idx |-> current_row_idx,
               flushes |-> flushes]
         ELSE WriteBatches(b.sheet, rows, idx + batch_size, batch_size, headers_,
                           b.current_row_idx, fault, Append(flushes, b.flushed))

\* int(index) of a cell: the int of a string of digits, ValueError otherwise
IsInt(cell) == cell \in {"1", "2"}

IntOfCell(cell) == IF cell = "1" THEN "#1" ELSE "#2"

\* the first row whose index_col value is the index (the dict rows_dict keeps
\* the last row of a key), or 0 when none has it (KeyError)
LastWithKey(rows, index_col, index_) ==
    LET hits == {i \in 1..Len(rows) : rows[i][index_col] = index_} IN
    IF hits = {} THEN 0 ELSE CHOOSE i \in hits : \A j \in hits : j <= i

\* the index_col branch of write_rows: the rows reordered by the index column
\* of the snapshot's data rows; raised on: index_col no header (ValueError or,
\* headers None, AttributeError), a data row without that cell or no data row
\* (IndexError), a cell that is no int (ValueError), a row without the key or
\* an index without a row (KeyError)
Reindexed(s, rows, index_col) ==
    LET H == s._headers
        data == Tail(s.local_sheet_values)
        Failed == [raised |-> TRUE, rows |-> rows] IN
    IF H.isNone \/ Len(s.local_sheet_values) = 0 THEN Failed
    ELSE IF index_col \notin Range(H.val) THEN Failed
    ELSE LET index_col_idx == index(H.val, index_col)
             short == \E i \in 1..Len(data) : Len(data[i]) <= index_col_idx IN
         IF short \/ Len(data) = 0 THEN Failed
         ELSE LET all_ == [i \in 1..Len(data) |-> data[i][index_col_idx + 1]]
                  indices == IF all_[Len(all_)] = "" THEN SubSeq(all_, 1, Len(all_) - 1)
                             ELSE all_ IN
              IF \E i \in 1..Len(indices) : ~IsInt(indices[i]) THEN Failed
              ELSE IF \E i \in 1..Len(rows) : index_col \notin DOMAIN rows[i] THEN Failed
              ELSE IF \E i \in 1..Len(indices) : LastWithKey(rows, index_col, IntOfCell(indices[i])) = 0
              THEN Failed
              ELSE [raised |-> FALSE,
                    rows |-> [i \in 1..Len(indices) |->
                                 rows[LastWithKey(rows, index_col, IntOfCell(indices[i]))]]]

\* write_rows(rows, empty_sheet, headers, write_headers, start_row_idx,
\* batch_size, index_col, overwrite_headers), decorated: the index it returns,
\* the header list the batches used, the flushes of its nested operations in
\* order, and the object and worksheet after it; headers and index_col may be
\* None; args is the record of the arguments
write_rows(s0, args, fault) ==
    LET s1 == sync_from_remote(s0)
        s2 == IF args.empty_sheet THEN clear_worksheet(s1) ELSE s1
        s3 == IF args.headers.isNone THEN headers(s2) ELSE s2
        given == IF args.headers.isNone THEN s3._headers ELSE args.headers
        Failed(t) == [raised |-> TRUE, sheet |-> t, current_row_idx |-> args.start_row_idx,
                      headers |-> None, flushes |-> <<>>, rows |-> args.rows]
        wh == _write_headers(s3, given.val, args.start_row_idx, args.overwrite_headers) IN
    IF args.write_headers /\ given.isNone THEN Failed(sync_from_remote(s3))
    ELSE IF args.write_headers /\ wh.raised THEN Failed(wh.sheet)
    ELSE LET s4 == IF args.write_headers THEN wh.sheet ELSE s3
             current_row_idx == IF args.write_headers THEN wh.current_row_idx
                                ELSE args.start_row_idx
             headers_ == IF args.write_headers THEN Some(wh.headers)
                         ELSE IF given.isNone THEN None
                         ELSE Some([i \in 1..Len(given.val) |-> Some(given.val[i])])
             hflush == IF args.write_headers THEN <<wh.staged>> ELSE <<>>
             s5 == IF args.index_col.isNone THEN s4 ELSE headers(s4)
             re == IF args.index_col.isNone THEN [raised |-> FALSE, rows |-> args.rows]
                   ELSE Reindexed(s5, args.rows, args.index_col.val) IN
         IF re.raised
         THEN [Failed(s5) EXCEPT !.flushes = hflush, !.headers = headers_]
         ELSE LET w == WriteBatches(s5, re.rows, 0, args.batch_size, headers_,
                                    current_row_idx, fault, hflush) IN
              IF w.raised
              THEN [raised |-> TRUE, sheet |-> w.sheet, current_row_idx |-> w.current_row_idx,
                    headers |-> headers_, flushes |-> w.flushes, rows |-> re.rows]
              ELSE [raised |-> FALSE, sheet |-> sync_to_remote(w.sheet),
                    current_row_idx |-> w.current_row_idx, headers |-> headers_,
                    flushes |-> Append(w.flushes, w.sheet.buffer), rows |-> re.rows]

\* scores are counted in twelfths: the averages of up to four whole ratings
Unit == 12

Quarter == Unit \div 4

Half == Unit \div 2

\* np.arange(start, stop, step): ceil((stop - start) / step) values, step apart
arange(start, stop, step) ==
    LET n == IF stop > start THEN (stop - start + step - 1) \div step ELSE 0 IN
    [k \in 1..n |-> start + (k - 1) * step]

np_min(scores) == CHOOSE v \in Range(scores) : \A w \in Range(scores) : v <= w

np_max(scores) == CHOOSE v \in Range(scores) : \A w \in Range(scores) : v >= w

\* mutant: the fixed-width edges whatever the range is
ChooseBins_NeverAuto(scores, bins) ==
    IF ~bins.isNone THEN [kind |-> "count", n |-> bins.val]
    ELSE [kind |-> "edges",
          edges |-> arange(np_min(scores) - Quarter, np_max(scores) + Half, Half)]

\* the bins of generate_histogram: the number given, the fixed-width edges, or
\* 'auto'
ChooseBins(scores, bins) ==
    IF ~bins.isNone THEN [kind |-> "count", n |-> bins.val]
    ELSE IF np_max(scores) - np_min(scores) <= 5 * Unit
    THEN [kind |-> "edges",
          edges |-> arange(np_min(scores) - Quarter, np_max(scores) + Half, Half)]
    ELSE [kind |-> "auto"]

\* generate_histogram(scores, score_type, bins, save_path): nothing is plotted
\* for no scores; otherwise the histogram is drawn over the chosen bins
generate_histogram(scores, bins) ==
    IF Len(scores) = 0 THEN [plotted |-> FALSE]
    ELSE [plotted |-> TRUE, min_score |-> np_min(scores), max_score |-> np_max(scores),
          bins |-> ChooseBins(scores, bins)]

\* ax.hist over explicit edges: a value is counted when it lies between the
\* first and the last edge, both included
Counted(v, edges) == Len(edges) >= 2 /\ edges[1] <= v /\ v <= edges[Len(edges)]

(***************************************************************************)
(* The histogram generator: construction, the two cache methods called on  *)
(* their own, and the retrieval of all submissions.                        *)
(***************************************************************************)
Self == [use_cache |-> use_cache, refresh_cache |-> refresh_cache]

CacheValues == {Source(n) : n \in 0..MaxData}

NoCall == [op |-> "none"]

Unknown == [known |-> FALSE]
Known(v) == [known |-> TRUE, data |-> v]

\* the ghost `expect` after a _save_cache(cache_key, data) that reached the write
Expect(cache_key, data, wf) ==
    [expect EXCEPT ![cache_key] = IF wf.fail = "none" THEN Known(data) ELSE Unknown]

Init ==
    /\ use_cache \in BOOLEAN
    /\ refresh_cache \in BOOLEAN
    /\ disk = [p \in CachePaths |-> NoFile]
    /\ last = [op |-> "init"]
    /\ expect = [k \in CacheKeys |-> Unknown]
    /\ call = NoCall
    /\ sheet = NoSheet

\* a later run of the script over the same cache directory
NewGenerator ==
    /\ use_cache' \in BOOLEAN
    /\ refresh_cache' \in BOOLEAN
    /\ last' = [op |-> "init"]
    /\ UNCHANGED <<disk, expect, call, sheet>>

SaveCache ==
    \E cache_key \in CacheKeys, data \in CacheValues, wf \in WriteFaults :
        /\ disk' = _save_cache(Self, disk, cache_key, data, wf)
        /\ last' = [op |-> "save", key |-> cache_key, data |-> data, wf |-> wf,
                    changed |-> _save_cache(Self, disk, cache_key, data, wf) # disk]
        /\ expect' = IF use_cache THEN Expect(cache_key, data, wf) ELSE expect
        /\ UNCHANGED <<use_cache, refresh_cache, call, sheet>>

LoadCache ==
    \E cache_key \in CacheKeys, rf \in ReadFaults :
        /\ last' = [op |-> "load", key |-> cache_key, rf |-> rf,
                    ret |-> _load_cache(Self, disk, cache_key, rf)]
        /\ UNCHANGED <<use_cache, refresh_cache, disk, expect, call, sheet>>

\* get_all_submissions against a source of n submissions
GetAllSubmissionsOf(n, batch_size, failAt, rf, wf) ==
    LET r == get_all_submissions(Self, disk, Source(n), batch_size, failAt, rf, wf) IN
    /\ disk' = r.files
    /\ last' = [op |-> "get_all_submissions", n |-> n,
                batch_size |-> batch_size, failAt |-> failAt, rf |-> rf, wf |-> wf,
                raised |-> r.raised, ret |-> r.value, requests |-> r.requests,
                saved |-> r.saved]
    /\ expect' = IF r.saved THEN Expect(all_key, r.value, wf) ELSE expect
    /\ UNCHANGED <<use_cache, refresh_cache, call, sheet>>

GetAllSubmissions ==
    \E n \in {0, MaxData}, failAt \in 0..1, rf \in ReadFaults, wf \in WriteFaults :
        GetAllSubmissionsOf(n, MaxBatch, failAt, rf, wf)

(***************************************************************************)
(* The two paginated fetches against a source of n submissions, written    *)
(* by the author "~Ann" (odd numbers) and by "~Bob" (even numbers); every  *)
(* forum holds one review.  The histogram generator runs with --no-cache.  *)
(***************************************************************************)
Ann == <<"~", "A", "n", "n">>
Bob == <<"~", "B", "o", "b">>

AuthoredSubmission(n) ==
    [Submission(n) EXCEPT !.authorids = <<IF n % 2 = 1 THEN Ann ELSE Bob>>]

AuthoredSource(n) == [i \in 1..n |-> AuthoredSubmission(i)]

OneReview(n) ==
    <<[invitations |-> <<Invitation(n, "Official_Review")>>,
       rating |-> Some(n), final_rating |-> None,
       content |-> {}, writers |-> <<>>, readers |-> <<>>]>>

InitFetch ==
    /\ use_cache = FALSE
    /\ refresh_cache = FALSE
    /\ disk = [p \in CachePaths |-> NoFile]
    /\ last = [op |-> "init"]
    /\ expect = [k \in CacheKeys |-> Unknown]
    /\ call = NoCall
    /\ sheet = NoSheet

FetchAllSubmissions ==
    \E n \in 0..MaxN, batch_size \in 1..MaxBatch, failAt \in 0..(MaxN + 1) :
        GetAllSubmissionsOf(n, batch_size, failAt, "none", NoWriteFault)

GetAuthorPapersList ==
    \E n \in 0..MaxN, batch_size \in 1..MaxBatch, failAt \in 0..(MaxN + 1),
       notesFailAt \in 0..1 :
        LET r == get_author_papers_list(Ann, Returned(Some(Ann)), AuthoredSource(n),
                     [f \in 1..n |-> OneReview(f)], batch_size,
                     [has_rating |-> TRUE, has_final_rating |-> FALSE,
                      note_extractors |-> "ICLR2026"],
                     [failAt |-> failAt, notesFailAt |-> notesFailAt]) IN
        /\ last' = [op |-> "get_author_papers_list", n |-> n,
                    batch_size |-> batch_size, failAt |-> failAt,
                    notesFailAt |-> notesFailAt, raised |-> r.raised, ret |-> r.value,
                    all_submissions |-> r.all_submissions, requests |-> r.requests,
                    forums |-> r.forums]
        /\ UNCHANGED <<use_cache, refresh_cache, disk, expect, call, sheet>>

NextFetch == FetchAllSubmissions \/ GetAuthorPapersList

SpecFetch == InitFetch /\ [][NextFetch]_vars

(***************************************************************************)
(* Area-chair resolution on its own: the groups of the user, the venue's   *)
(* area chairs and the submissions are drawn at the start, and the call    *)
(* is applied to them.                                                     *)
(***************************************************************************)
AcUser == "~AC_User1"
OtherUser == "~Reviewer_2"

SpecificGroup(number, code) ==
    conf \o <<"/", "Submission">> \o DecimalDigits(number) \o <<"/", "Area_Chair", "_", code>>

\* the groups a user of OpenReview can be a member of
AllGroups ==
    <<SpecificGroup(7, "abc"),
      SpecificGroup(12, "x"),
      SpecificGroup(2, "k"),
      PoolGroupOf(7),
      PoolGroupOf(2),
      conf \o <<"/", "Area_Chair", "s">>,
      <<"NeurIPS.cc/2025/Conference", "/", "Submission", "7", "/", "Area_Chair", "_", "abc">>,
      conf \o <<"/", "Submission", "7", "/", "Senior_", "Area_Chair", "s">>>>

\* the groups at the places of picked, in the order of AllGroups
GroupsAt(picked) ==
    LET Picked(i) == i \in picked
        places == SelectSeq([i \in 1..Len(AllGroups) |-> i], Picked) IN
    [i \in 1..Len(places) |-> AllGroups[places[i]]]

\* the submissions 7, 2 and (if has12) 12, in that order; the readers of 7 and
\* of 2 are drawn, those of 12 are its own groups
AcSource(readers7, readers2, has12) ==
    <<[Submission(7) EXCEPT !.readers = readers7],
      [Submission(2) EXCEPT !.readers = readers2]>>
    \o (IF has12 THEN <<[Submission(12) EXCEPT !.readers = {PoolGroupOf(12)}]>> ELSE <<>>)

Everyone == <<"everyone">>

AcEnvs ==
    {[op |-> "get_ac_assigned_submissions",
      members |-> members, profile_id |-> AcUser, user_groups |-> GroupsAt(picked),
      source |-> AcSource(readers7, readers2, has12), batch_size |-> MaxBatch,
      fault |-> fault] :
        members \in {<<>>, <<OtherUser>>, <<OtherUser, AcUser>>},
        picked \in SUBSET (1..Len(AllGroups)),
        readers7 \in {{PoolGroupOf(7)}, {Everyone}},
        readers2 \in {{PoolGroupOf(2)}, {PoolGroupOf(2), PoolGroupOf(7)}, {PoolGroupOf(7)}},
        has12 \in BOOLEAN,
        fault \in {[kind |-> "none", at |-> 0]}
                  \cup {[kind |-> k, at |-> a] : k \in {"caught", "uncaught"}, a \in 1..2}}

InitAC ==
    /\ use_cache = TRUE
    /\ refresh_cache = FALSE
    /\ disk = [p \in CachePaths |-> NoFile]
    /\ last = [op |-> "init"]
    /\ expect = [k \in CacheKeys |-> Unknown]
    /\ call \in AcEnvs
    /\ sheet = NoSheet

GetAcAssignedSubmissions ==
    /\ call.op = "get_ac_assigned_submissions"
    /\ last.op = "init"
    /\ LET r == get_ac_assigned_submissions(Self, disk, call) IN
       /\ disk' = r.files
       /\ last' = [op |-> "get_ac_assigned_submissions", raised |-> r.raised,
                   ret |-> r.value, strategy |-> r.strategy, assigned |-> r.assigned,
                   fetched |-> r.fetched, saved |-> r.saved]
    /\ UNCHANGED <<use_cache, refresh_cache, expect, call, sheet>>

NextAC == GetAcAssignedSubmissions

SpecAC == InitAC /\ [][NextAC]_vars

(***************************************************************************)
(* Scores on their own: submission 1 with drawn forum notes and submission *)
(* 2 with one review, both by "~Ann"; the histogram generator runs with    *)
(* --no-cache.                                                             *)
(***************************************************************************)
Review(number, rating, final_rating) ==
    [invitations |-> <<Invitation(number, "Official_Review")>>,
     rating |-> rating, final_rating |-> final_rating,
     content |-> {}, writers |-> <<>>, readers |-> <<>>]

\* what a note in the forum of submission 1 can be: a comment, a review of the
\* submission with or without the two ratings, a note under the review
\* invitation of another submission
NoteChoices ==
    {[invitations |-> <<Invitation(1, "Official_Comment")>>,
      rating |-> None, final_rating |-> None,
      content |-> {}, writers |-> <<>>, readers |-> <<>>],
     Review(1, None, None), Review(1, Some(1), None), Review(1, Some(2), Some(4)),
     Review(1, None, Some(4)), Review(2, Some(4), Some(4))}

NoteLists == UNION {[1..k -> NoteChoices] : k \in 0..MaxNotes}

ScoredSource(withdrawn) ==
    <<[Submission(1) EXCEPT !.authorids = <<Ann>>, !.venue = VenueOf(withdrawn)],
      [Submission(2) EXCEPT !.authorids = <<Ann>>, !.venue = VenueOf(FALSE)]>>

ScoreEnvs(ops) ==
    {[op |-> op, submissions |-> ScoredSource(withdrawn),
      notes_of |-> <<notes, <<Review(2, Some(2), Some(4))>>>>,
      score_type |-> score_type, exclude_withdrawn |-> exclude_withdrawn,
      CONFERENCE_INFO |-> [has_rating |-> hr, has_final_rating |-> hf,
                           note_extractors |-> "ICLR2026"],
      notesFailAt |-> notesFailAt] :
        op \in ops,
        withdrawn \in BOOLEAN, notes \in NoteLists, score_type \in ScoreTypes,
        exclude_withdrawn \in BOOLEAN, hr \in BOOLEAN, hf \in BOOLEAN,
        notesFailAt \in 0..1}

\* calls with a score type that is neither 'initial' nor 'final', over no
\* submission, submission 1 alone, and both
OtherTypeEnvs ==
    {[op |-> "extract_average_scores", submissions |-> SubSeq(ScoredSource(withdrawn), 1, n),
      notes_of |-> <<notes, <<Review(2, Some(2), Some(4))>>>>,
      score_type |-> "other", exclude_withdrawn |-> exclude_withdrawn,
      CONFERENCE_INFO |-> [has_rating |-> TRUE, has_final_rating |-> TRUE,
                          note_extractors |-> "ICLR2026"],
      notesFailAt |-> 0] :
        n \in 0..2, withdrawn \in BOOLEAN, exclude_withdrawn \in BOOLEAN,
        notes \in {l \in NoteLists : Len(l) <= 1}}

InitScore ==
    /\ use_cache = FALSE
    /\ refresh_cache = FALSE
    /\ disk = [p \in CachePaths |-> NoFile]
    /\ last = [op |-> "init"]
    /\ expect = [k \in CacheKeys |-> Unknown]
    /\ call \in ScoreEnvs({"extract_average_scores", "get_author_papers_list"})
                 \cup OtherTypeEnvs
    /\ sheet = NoSheet

ExtractAverageScores ==
    /\ call.op = "extract_average_scores"
    /\ last.op = "init"
    /\ LET r == extract_average_scores(Self, disk, call) IN
       /\ disk' = r.files
       /\ last' = [op |-> "extract_average_scores", raised |-> r.raised,
                   ret |-> r.value, forums |-> r.forums, saved |-> r.saved]
    /\ UNCHANGED <<use_cache, refresh_cache, expect, call, sheet>>

ListAuthorPapers ==
    /\ call.op = "get_author_papers_list"
    /\ last.op = "init"
    /\ LET r == get_author_papers_list(Ann, Returned(Some(Ann)), call.submissions,
                    call.notes_of, MaxBatch, call.CONFERENCE_INFO,
                    [failAt |-> 0, notesFailAt |-> call.notesFailAt]) IN
       last' = [op |-> "get_author_papers_list", raised |-> r.raised, ret |-> r.value,
                all_submissions |-> r.all_submissions, requests |-> r.requests,
                forums |-> r.forums]
    /\ UNCHANGED <<use_cache, refresh_cache, disk, expect, call, sheet>>

NextScore == ExtractAverageScores \/ ListAuthorPapers

SpecScore == InitScore /\ [][NextScore]_vars

(***************************************************************************)
(* The spreadsheet on its own: a worksheet that is empty, or headed [A] or *)
(* [A, C], or headed [A] with one data row; header lists are written to    *)
(* it, its rows are read, it is cleared, and a later run of the script     *)
(* opens it anew.                                                          *)
(***************************************************************************)
HeaderLists == UNION {[1..k -> HeaderNames] : k \in 1..MaxW}

\* the header row of the worksheet, None when it has no row
HeaderRow(s) == IF Len(s.remote) = 0 THEN None ELSE Some(s.remote[1])

InitSheet ==
    /\ use_cache = FALSE
    /\ refresh_cache = FALSE
    /\ disk = [p \in CachePaths |-> NoFile]
    /\ last = [op |-> "init"]
    /\ expect = [k \in CacheKeys |-> Unknown]
    /\ call = NoCall
    /\ \E rows \in {<<>>, <<<<"A">>>>, <<<<"A", "C">>>>, <<<<"A">>, <<"x">>>>} :
          sheet = [NoSheet EXCEPT !.remote = rows]

\* nothing in the scripts catches what _write_headers raises: the run ends with
\* its object, the worksheet stays as it is
WriteHeaders ==
    \E W \in HeaderLists, overwrite \in BOOLEAN :
       /\ (IF Len(sheet.remote) = 0 THEN 0 ELSE Len(sheet.remote[1])) + Len(W) <= MaxCols
       /\ LET r == _write_headers(sheet, W, 0, overwrite) IN
          /\ sheet' = IF r.raised THEN [NoSheet EXCEPT !.remote = sheet.remote]
                       ELSE r.sheet
          /\ last' = [op |-> "_write_headers", W |-> W, overwrite |-> overwrite,
                      before |-> HeaderRow(sheet),
                      view |-> headers(sync_from_remote(sheet))._headers,
                      raised |-> r.raised, headers |-> r.headers, staged |-> r.staged,
                      current_row_idx |-> r.current_row_idx]
       /\ UNCHANGED <<use_cache, refresh_cache, disk, expect, call>>

ClearWorksheet ==
    /\ sheet' = clear_worksheet(sheet)
    /\ last' = [op |-> "clear_worksheet"]
    /\ UNCHANGED <<use_cache, refresh_cache, disk, expect, call>>

\* GSheetWithHeader(...) over the same worksheet
NewSheetObject ==
    /\ sheet' = [NoSheet EXCEPT !.remote = sheet.remote]
    /\ last' = [op |-> "init"]
    /\ UNCHANGED <<use_cache, refresh_cache, disk, expect, call>>

GetDataList ==
    /\ LET r == get_data_list(sheet) IN
       /\ sheet' = r.sheet
       /\ last' = [op |-> "get_data_list", ret |-> r.value]
    /\ UNCHANGED <<use_cache, refresh_cache, disk, expect, call>>

NextSheet == WriteHeaders \/ ClearWorksheet \/ NewSheetObject \/ GetDataList

SpecSheet == InitSheet /\ [][NextSheet]_vars

(***************************************************************************)
(* write_cells on its own: a worksheet headed [A, B] with up to two data   *)
(* rows (or with no row at all), one call of write_cells on a new object.  *)
(***************************************************************************)
MaxPairs == 2      \* (where, what) pairs of a call, at most

Item(key, value) == [key |-> key, value |-> value]

CellSheets ==
    {<<>>,
     <<<<"A", "B">>>>,
     <<<<"A", "B">>, <<"x", "">>>>,
     <<<<"A", "B">>, <<"x", "y">>>>,
     <<<<"A", "B">>, <<"y", "x">>, <<"x", "y">>>>,
     <<<<"A", "B">>, <<"x", "">>, <<"x", "y">>>>}

\* conditions: none, one that a data row meets, one that only the header row
\* meets, one that no row meets, one on a column that is no header
WhereChoices ==
    {<<>>, <<Item("A", "x")>>, <<Item("A", "A")>>, <<Item("A", "z")>>,
     <<Item("C", "x")>>}

WhatChoices ==
    {<<Item("B", "y")>>, <<Item("B", "x")>>, <<Item("C", "x"), Item("B", "y")>>,
     <<Item("A", "y"), Item("B", "x")>>}

WhereLists == UNION {[1..k -> WhereChoices] : k \in 1..MaxPairs}
WhatLists == UNION {[1..k -> WhatChoices] : k \in 1..MaxPairs}

CellCalls ==
    {[op |-> "write_cells", where |-> where, what |-> what, overwrite |-> overwrite] :
        where \in WhereLists, what \in WhatLists, overwrite \in BOOLEAN}

InitCells ==
    /\ use_cache = FALSE
    /\ refresh_cache = FALSE
    /\ disk = [p \in CachePaths |-> NoFile]
    /\ last = [op |-> "init"]
    /\ expect = [k \in CacheKeys |-> Unknown]
    /\ call \in {c \in CellCalls : Len(c.where) = Len(c.what)}
    /\ \E rows \in CellSheets : sheet = [NoSheet EXCEPT !.remote = rows]

WriteCells ==
    /\ call.op = "write_cells"
    /\ last.op = "init"
    /\ LET r == write_cells(sheet, call.where, call.what, call.overwrite) IN
       /\ sheet' = IF r.raised THEN [NoSheet EXCEPT !.remote = sheet.remote] ELSE r.sheet
       /\ last' = [op |-> "write_cells", before |-> sheet.remote, raised |-> r.raised,
                   staged |-> r.staged, log |-> r.log, updates_count |-> r.updates_count]
    /\ UNCHANGED <<use_cache, refresh_cache, disk, expect, call>>

NextCells == WriteCells

SpecCells == InitCells /\ [][NextCells]_vars

MaxRowsIn == 3     \* rows of a write_rows call, at most

\* rows: one with both columns, one without A and with a key that is no header
RowChoices == {[A |-> "1", B |-> "x"], [B |-> "y", C |-> "z"]}

\* rows keyed by an int in column A
IndexedRowChoices == {[A |-> "#1", B |-> "x"], [A |-> "#2", B |-> "y"]}

RowLists(choices) == UNION {[1..k -> choices] : k \in 0..MaxRowsIn}

RowSheets == {<<>>, <<<<"A">>>>, <<<<"A", "B">>, <<"9", "old">>>>}

IndexedSheets ==
    {<<<<"A", "B">>>>,
     <<<<"A", "B">>, <<"x", "">>>>,
     <<<<"A", "B">>, <<"2", "">>, <<"1", "">>>>,
     <<<<"A", "B">>, <<"1", "">>, <<"", "">>>>}

BatchFaults ==
    {[kind |-> kind, batch |-> k] : kind \in {"stage", "flush"}, k \in 1..MaxRowsIn}

RowArgs(rows, empty_sheet, headers_, write_headers, start_row_idx, batch_size, index_col, overwrite_headers) ==
    [rows |-> rows, empty_sheet |-> empty_sheet, headers |-> headers_,
     write_headers |-> write_headers, start_row_idx |-> start_row_idx,
     batch_size |-> batch_size, index_col |-> index_col,
     overwrite_headers |-> overwrite_headers]

\* calls without index_col and without faults, over every sheet; the header
\* row is overwritten only on an emptied sheet, as main does
PlacementCalls ==
    {c \in {[op |-> "write_rows", remote |-> remote, fault |-> NoBatchFault,
             args |-> RowArgs(rows, empty_sheet, headers_, write_headers, start_row_idx,
                              batch_size, None, overwrite_headers)] :
                remote \in RowSheets, rows \in RowLists(RowChoices),
                empty_sheet \in BOOLEAN,
                headers_ \in {None, Some(<<"A", "B">>), Some(<<"B", "A">>)},
                write_headers \in BOOLEAN, start_row_idx \in {0, 1},
                batch_size \in {1, 2, MaxBatch}, overwrite_headers \in BOOLEAN} :
        c.args.overwrite_headers => c.args.empty_sheet}

\* calls that meet a fault in one of their batches
FaultyCalls ==
    {[op |-> "write_rows", remote |-> remote, fault |-> fault,
      args |-> RowArgs(rows, FALSE, Some(<<"A", "B">>), write_headers, 0, batch_size,
                       None, FALSE)] :
        remote \in {<<<<"A", "B">>, <<"9", "old">>>>}, rows \in RowLists(RowChoices),
        fault \in BatchFaults, write_headers \in BOOLEAN, batch_size \in 1..MaxBatch}

\* calls with index_col
IndexedCalls ==
    {[op |-> "write_rows", remote |-> remote, fault |-> NoBatchFault,
      args |-> RowArgs(rows, FALSE, None, write_headers, 0, batch_size, index_col, FALSE)] :
        remote \in IndexedSheets, rows \in {l \in RowLists(IndexedRowChoices \cup {[B |-> "y", C |-> "z"]}) : Len(l) < MaxRowsIn},
        write_headers \in BOOLEAN, batch_size \in {1, MaxBatch},
        index_col \in {Some("A"), Some("C")}}

InitRows ==
    /\ use_cache = FALSE
    /\ refresh_cache = FALSE
    /\ disk = [p \in CachePaths |-> NoFile]
    /\ last = [op |-> "init"]
    /\ expect = [k \in CacheKeys |-> Unknown]
    /\ call \in PlacementCalls \cup FaultyCalls \cup IndexedCalls
    /\ sheet = [NoSheet EXCEPT !.remote = call.remote]

WriteRows ==
    /\ call.op = "write_rows"
    /\ last.op = "init"
    /\ LET r == write_rows(sheet, call.args, call.fault) IN
       /\ sheet' = r.sheet
       /\ last' = [op |-> "write_rows", before |-> sheet.remote, raised |-> r.raised,
                   current_row_idx |-> r.current_row_idx, headers |-> r.headers,
                   flushes |-> r.flushes, rows |-> r.rows]
    /\ UNCHANGED <<use_cache, refresh_cache, disk, expect, call>>

NextRows == WriteRows

SpecRows == InitRows /\ [][NextRows]_vars

MaxSpread == 66    \* twelfths between the lowest and the highest score, at most
MaxScores == 2     \* scores of a histogram, at most

\* averages of one to four whole ratings from 1 on: whole numbers, halves,
\* thirds and quarters
ScoreGrid == {Unit + k : k \in {d \in 0..MaxSpread : d % 3 = 0 \/ d % 4 = 0}}

ScoreLists == UNION {[1..n -> ScoreGrid] : n \in 0..MaxScores}

InitHist ==
    /\ use_cache = FALSE
    /\ refresh_cache = FALSE
    /\ disk = [p \in CachePaths |-> NoFile]
    /\ last = [op |-> "init"]
    /\ expect = [k \in CacheKeys |-> Unknown]
    /\ call \in {[op |-> "generate_histogram", scores |-> scores, bins |-> bins] :
                    scores \in ScoreLists, bins \in {None, Some(10)}}
    /\ sheet = NoSheet

GenerateHistogram ==
    /\ call.op = "generate_histogram"
    /\ last.op = "init"
    /\ last' = [op |-> "generate_histogram",
                result |-> generate_histogram(call.scores, call.bins)]
    /\ UNCHANGED <<use_cache, refresh_cache, disk, expect, call, sheet>>

NextHist == GenerateHistogram

SpecHist == InitHist /\ [][NextHist]_vars

(***************************************************************************)
(* The three retrievals with caching on and refresh off, each called twice *)
(* by the same generator: the second call has the key of the first and     *)
(* meets a source that may have changed.                                   *)
(***************************************************************************)
ScoreKeys == {scores_cache_key(t, e, <<1, 2>>) : t \in ScoreTypes, e \in BOOLEAN}

AllCachePaths == CachePaths \cup {_get_cache_path(k) : k \in ScoreKeys}

AllTwice ==
    {[op |-> "get_all_submissions",
      first |-> [source |-> Source(n1), failAt |-> failAt],
      second |-> [source |-> Source(n2), failAt |-> 0]] :
        n1 \in 0..MaxData, n2 \in 0..MaxData, failAt \in 0..1}

AcEnv(members, picked, readers2, fault) ==
    [op |-> "get_ac_assigned_submissions", members |-> members, profile_id |-> AcUser,
     user_groups |-> GroupsAt(picked),
     source |-> AcSource({PoolGroupOf(7)}, readers2, FALSE), batch_size |-> MaxBatch,
     fault |-> fault]

\* the user: no area chair, or one with a specific group, a pool group, or both
AcTwice ==
    {[op |-> "get_ac_assigned_submissions",
      first |-> AcEnv(members, picked, {PoolGroupOf(2)}, fault),
      second |-> AcEnv(members, picked, readers2, [kind |-> "none", at |-> 0])] :
        members \in {<<>>, <<OtherUser>>, <<OtherUser, AcUser>>},
        picked \in {{}, {1}, {4}, {1, 4}},
        readers2 \in {{PoolGroupOf(2)}, {PoolGroupOf(2), PoolGroupOf(7)}},
        fault \in {[kind |-> k, at |-> a] :
                      <<k, a>> \in {<<"none", 0>>, <<"caught", 1>>, <<"uncaught", 1>>}}}

ScoreEnv(notes, score_type, exclude_withdrawn, withdrawn, notesFailAt) ==
    [op |-> "extract_average_scores", submissions |-> ScoredSource(withdrawn),
     notes_of |-> <<notes, <<Review(2, Some(2), Some(4))>>>>,
     score_type |-> score_type, exclude_withdrawn |-> exclude_withdrawn,
     CONFERENCE_INFO |-> [has_rating |-> TRUE, has_final_rating |-> TRUE,
                          note_extractors |-> "ICLR2026"],
     notesFailAt |-> notesFailAt]

ScoresTwice ==
    {[op |-> "extract_average_scores",
      first |-> ScoreEnv(notes1, score_type, exclude_withdrawn, withdrawn, notesFailAt),
      second |-> ScoreEnv(notes2, score_type, exclude_withdrawn, withdrawn, 0)] :
        notes1 \in {<<>>, <<Review(1, Some(1), None)>>},
        notes2 \in {<<>>, <<Review(1, Some(2), Some(4))>>},
        score_type \in ScoreTypes, exclude_withdrawn \in BOOLEAN, withdrawn \in BOOLEAN,
        notesFailAt \in 0..1}

NoEarlier == [raised |-> FALSE, ret |-> <<>>, saved |-> FALSE]

InitTwice ==
    /\ use_cache = TRUE
    /\ refresh_cache = FALSE
    /\ disk = [p \in AllCachePaths |-> NoFile]
    /\ last = [op |-> "init"]
    /\ expect = [k \in CacheKeys |-> Unknown]
    /\ call \in AllTwice \cup AcTwice \cup ScoresTwice
    /\ sheet = NoSheet

\* the record of a call: what it did, the key it used, the files it found, and
\* the record of the call before it
Called(key, raised, ret, fetched, saved) ==
    [op |-> IF last.op = "init" THEN "first" ELSE "second", key |-> key,
     raised |-> raised, ret |-> ret, fetched |-> fetched, saved |-> saved,
     before |-> disk,
     earlier |-> IF last.op = "init" THEN NoEarlier
                 ELSE [raised |-> last.raised, ret |-> last.ret, saved |-> last.saved]]

ThisCall == IF last.op = "init" THEN call.first ELSE call.second

GetAllSubmissionsTwice ==
    /\ call.op = "get_all_submissions"
    /\ last.op \in {"init", "first"}
    /\ LET r == get_all_submissions(Self, disk, ThisCall.source, MaxBatch,
                                    ThisCall.failAt, "none", NoWriteFault) IN
       /\ disk' = r.files
       /\ last' = Called(all_key, r.raised, r.value, Len(r.requests) > 0, r.saved)
    /\ UNCHANGED <<use_cache, refresh_cache, expect, call, sheet>>

GetAcAssignedSubmissionsTwice ==
    /\ call.op = "get_ac_assigned_submissions"
    /\ last.op \in {"init", "first"}
    /\ LET r == get_ac_assigned_submissions(Self, disk, ThisCall) IN
       /\ disk' = r.files
       /\ last' = Called(ac_key, r.raised, r.value, r.strategy # "none", r.saved)
    /\ UNCHANGED <<use_cache, refresh_cache, expect, call, sheet>>

ExtractAverageScoresTwice ==
    /\ call.op = "extract_average_scores"
    /\ last.op \in {"init", "first"}
    /\ LET r == extract_average_scores(Self, disk, ThisCall) IN
       /\ disk' = r.files
       /\ last' = Called(scores_cache_key(ThisCall.score_type, ThisCall.exclude_withdrawn,
                                          sorted_list(Numbers(ThisCall.submissions))),
                         r.raised, r.value, Len(r.forums) > 0, r.saved)
    /\ UNCHANGED <<use_cache, refresh_cache, expect, call, sheet>>

NextTwice ==
    GetAllSubmissionsTwice \/ GetAcAssignedSubmissionsTwice \/ ExtractAverageScoresTwice

SpecTwice == InitTwice /\ [][NextTwice]_vars

(***************************************************************************)
(* The author listing over submissions whose author ids and author names   *)
(* are drawn: the user asks as "~Ann", "Ann" or "ann", and the profile     *)
(* lookup answers "~Ann", nothing, or raises.                              *)
(***************************************************************************)
MaxAuthored == 2   \* submissions of the venue in the author listing, at most

AnnName == <<"A", "n", "n">>
AnnLower == <<"a", "n", "n">>
AnnaName == <<"A", "n", "n", "a">>
AnnaId == <<"~", "A", "n", "n", "a">>
BobName == <<"B", "o", "b">>

\* author ids and author names of a submission: by Ann, by Bob, by "ann" with
\* no ids, by Anna, by "Ann" as an id without tilde and no names
AuthorChoices ==
    {[authorids |-> <<Ann>>, authors |-> <<AnnName>>],
     [authorids |-> <<Bob>>, authors |-> <<BobName>>],
     [authorids |-> <<>>, authors |-> <<AnnLower>>],
     [authorids |-> <<Bob, AnnaId>>, authors |-> <<BobName, AnnaName>>],
     [authorids |-> <<AnnName>>, authors |-> <<>>]}

AuthorSources ==
    UNION {{[i \in 1..n |-> [Submission(i) EXCEPT !.authorids = by[i].authorids,
                                                   !.authors = by[i].authors]] :
               by \in [1..n -> AuthorChoices]} : n \in 0..MaxAuthored}

AuthorCalls ==
    {[op |-> "get_author_papers_list", author_identifier |-> author_identifier,
      profile |-> profile, source |-> source] :
        author_identifier \in {Ann, AnnName, AnnLower},
        profile \in {Raised, Returned(None), Returned(Some(Ann))},
        source \in AuthorSources}

InitAuthor ==
    /\ use_cache = FALSE
    /\ refresh_cache = FALSE
    /\ disk = [p \in CachePaths |-> NoFile]
    /\ last = [op |-> "init"]
    /\ expect = [k \in CacheKeys |-> Unknown]
    /\ call \in AuthorCalls
    /\ sheet = NoSheet

ListPapersOfAuthor ==
    /\ call.op = "get_author_papers_list"
    /\ last.op = "init"
    /\ LET r == get_author_papers_list(call.author_identifier, call.profile, call.source,
                    [f \in 1..Len(call.source) |-> OneReview(f)], MaxBatch,
                    [has_rating |-> TRUE, has_final_rating |-> FALSE,
                      note_extractors |-> "ICLR2026"],
                    [failAt |-> 0, notesFailAt |-> 0]) IN
       last' = [op |-> "get_author_papers_list", raised |-> r.raised, ret |-> r.value,
                all_submissions |-> r.all_submissions, requests |-> r.requests,
                forums |-> r.forums]
    /\ UNCHANGED <<use_cache, refresh_cache, disk, expect, call, sheet>>

NextAuthor == ListPapersOfAuthor

SpecAuthor == InitAuthor /\ [][NextAuthor]_vars

(***************************************************************************)
(* Note counting on its own: submission 1 by "~Ann" under each conference  *)
(* of the configuration, with drawn forum notes: reviews with and without  *)
(* a final justification, comments by a reviewer and by the authors, a     *)
(* rebuttal, a confidential letter, and the submission note itself.        *)
(***************************************************************************)
MaxCounted == 2    \* notes in a forum whose notes are counted, at most

\* f'{conference_id}/Submission{number}/{role}'
GroupOf(number, role) ==
    conf \o <<"/", "Submission">> \o DecimalDigits(number) \o <<"/">> \o role

CountedNote(name, content, writers, readers) ==
    [invitations |-> <<Invitation(1, name)>>, rating |-> Some(2), final_rating |-> None,
     content |-> content, writers |-> writers, readers |-> readers]

CountedChoices ==
    LET Reviewer == GroupOf(1, <<"Reviewer", "_", "x">>)
        Authors == GroupOf(1, <<"Author", "s">>)
        AreaChairs == GroupOf(1, <<"Area_Chair", "s">>) IN
    {CountedNote("Official_Review", {"preliminary_recommendation"}, <<Reviewer>>, <<Authors>>),
     CountedNote("Official_Review", {"final_justification"}, <<Reviewer>>, <<Authors>>),
     CountedNote("Official_Comment", {"comment"}, <<Reviewer>>, <<Authors>>),
     CountedNote("Official_Comment", {"comment"}, <<Authors>>, <<Reviewer>>),
     CountedNote("Rebuttal", {"pdf"}, <<Authors>>, <<Reviewer>>),
     CountedNote("Author_AC_Confidential_Comment", {"pdf", "confidential_comments_to_AC"},
                 <<Authors>>, <<AreaChairs>>),
     CountedNote("Submission", {"pdf", "abstract"}, <<Authors>>, <<>>)}

CountedLists == UNION {[1..k -> CountedChoices] : k \in 0..MaxCounted}

CountCalls ==
    {[op |-> "get_author_papers_list", conference |-> conference, notes |-> notes] :
        conference \in Conferences, notes \in CountedLists}

InitNotes ==
    /\ use_cache = FALSE
    /\ refresh_cache = FALSE
    /\ disk = [p \in CachePaths |-> NoFile]
    /\ last = [op |-> "init"]
    /\ expect = [k \in CacheKeys |-> Unknown]
    /\ call \in CountCalls
    /\ sheet = NoSheet

ListCountedPapers ==
    /\ last.op = "init"
    /\ LET r == get_author_papers_list(Ann, Returned(Some(Ann)),
                    <<[Submission(1) EXCEPT !.authorids = <<Ann>>]>>,
                    <<call.notes>>, MaxBatch,
                    [has_rating |-> call.conference # "ICCV2025",
                     has_final_rating |-> call.conference = "ICCV2025",
                     note_extractors |-> call.conference],
                    [failAt |-> 0, notesFailAt |-> 0]) IN
       last' = [op |-> "get_author_papers_list", raised |-> r.raised, ret |-> r.value,
                all_submissions |-> r.all_submissions, requests |-> r.requests,
                forums |-> r.forums]
    /\ UNCHANGED <<use_cache, refresh_cache, disk, expect, call, sheet>>

NextNotes == ListCountedPapers

SpecNotes == InitNotes /\ [][NextNotes]_vars

Next == NewGenerator \/ SaveCache \/ LoadCache \/ GetAllSubmissions

Spec == Init /\ [][Next]_vars

(***************************************************************************)
(* The disk cache (C1-C3), checked under Spec.                             *)
(***************************************************************************)
CachingOn == [use_cache |-> TRUE, refresh_cache |-> FALSE]

\* C1: with caching enabled and refresh off, _load_cache(k) returns the data of
\* the most recent _save_cache to k, whatever was saved to k before and to other
\* keys in between (the save having written its file and the read not failing;
\* the failures are C3's subject).
C1_SaveLoadRoundTrip ==
    (/\ last.op = "load"
     /\ use_cache /\ ~refresh_cache
     /\ last.rf = "none"
     /\ expect[last.key].known)
    => last.ret = Some(expect[last.key].data)

\* a load that answers a two-item list saved to its key, after another list was
\* saved to the other key
C1_Witness ==
    /\ last.op = "load" /\ use_cache /\ ~refresh_cache /\ last.rf = "none"
    /\ expect[last.key].known /\ Len(expect[last.key].data) = 2
    /\ last.ret = Some(expect[last.key].data)
    /\ \E k \in CacheKeys : /\ k # last.key
                            /\ expect[k].known
                            /\ expect[k].data # expect[last.key].data

\* C2: with caching disabled _load_cache returns None and _save_cache writes
\* nothing; with refresh requested _load_cache returns None even when the entry
\* exists, while _save_cache writes the entry, which a run without refresh reads.
C2_CacheModes ==
    /\ (last.op = "load" /\ ~use_cache) => last.ret = None
    /\ (last.op = "load" /\ use_cache /\ refresh_cache) => last.ret = None
    /\ (last.op = "save" /\ ~use_cache) => ~last.changed
    /\ (last.op = "save" /\ use_cache /\ last.wf.fail = "none")
         => /\ disk[_get_cache_path(last.key)] = File(pickle_dump(last.data))
            /\ _load_cache(CachingOn, disk, last.key, "none") = Some(last.data)

\* a refreshing load that returns None although the entry is there and sound
C2_Witness ==
    /\ last.op = "load" /\ use_cache /\ refresh_cache /\ last.ret = None
    /\ _load_cache(CachingOn, disk, last.key, "none") = Some(Source(MaxData))

\* what every key's cache answers, to a run with caching on
Answers(files) == [k \in CacheKeys |-> _load_cache(CachingOn, files, k, "none")]

\* C3 (as claimed): a failed read makes _load_cache return None; a failed write
\* makes _save_cache a no-op, the cache answering afterwards as it did before;
\* the calling retrieval completes normally with what it fetched.
C3_CacheErrorsAreNoOps ==
    [][/\ (last'.op = "load" /\ last'.rf = "io_error") => last'.ret = None
       /\ (last'.op = "save" /\ last'.wf.fail # "none") => Answers(disk') = Answers(disk)
       /\ (last'.op = "get_all_submissions" /\ last'.failAt = 0)
            => /\ ~last'.raised
               /\ (last'.saved /\ last'.wf.fail # "none")
                     => (last'.ret = Source(last'.n) /\ Answers(disk') = Answers(disk))
      ]_vars

\* the part of C3 that the code keeps: no cache failure propagates, a failed
\* read is a miss, and a retrieval whose cache read or write failed still
\* returns what it fetched
C3_CacheErrorsNotPropagated ==
    /\ (last.op = "load" /\ last.rf = "io_error") => last.ret = None
    /\ (last.op = "get_all_submissions" /\ last.failAt = 0)
         => /\ ~last.raised
            /\ (last.saved /\ last.wf.fail # "none") => last.ret = Source(last.n)

(***************************************************************************)
(* Pagination (C4, C5), checked under SpecFetch.                           *)
(***************************************************************************)
Paginated == last.op \in {"get_all_submissions", "get_author_papers_list"}

\* no request of the call raised
NoPageFault == last.failAt = 0 \/ last.failAt > Len(last.requests)

Fetched ==
    IF last.op = "get_all_submissions" THEN last.ret ELSE last.all_submissions

CeilDiv(n, d) == (n + d - 1) \div d

\* C4 (as claimed): the loop requests exactly ceil(N/P) pages and returns the N
\* records in order.
C4_CeilPages ==
    (Paginated /\ NoPageFault)
    => /\ Len(last.requests) = CeilDiv(last.n, last.batch_size)
       /\ Numbers(Fetched) = [i \in 1..last.n |-> i]

\* C4 (amended): the loop requests exactly floor(N/P) + 1 pages, at offsets
\* 0, P, 2P, ... (ceil(N/P) pages when P does not divide N, and one more, empty
\* page when it does), and returns the N records in order, each once.
C4_FloorPlusOnePages ==
    (Paginated /\ NoPageFault)
    => /\ Len(last.requests) = (last.n \div last.batch_size) + 1
       /\ \A i \in 1..Len(last.requests) : last.requests[i] = (i - 1) * last.batch_size
       /\ Numbers(Fetched) = [i \in 1..last.n |-> i]
       /\ ~(last.op = "get_all_submissions" /\ last.raised)

\* four records in pages of two: a third, empty page is requested
C4_Witness ==
    /\ Paginated /\ NoPageFault
    /\ last.n = 4 /\ last.batch_size = 2
    /\ last.requests = <<0, 2, 4>>
    /\ Len(Fetched) = 4

\* C5 (as claimed): when the request of a page raises, both fetches stop and
\* hand the records of the earlier pages on; nothing propagates.
C5_PageErrorReturnsPartial ==
    (Paginated /\ ~NoPageFault)
    => /\ Numbers(Fetched) = [i \in 1..((last.failAt - 1) * last.batch_size) |-> i]
       /\ (last.op = "get_all_submissions" => ~last.raised)
       /\ (last.op = "get_author_papers_list" /\ last.notesFailAt = 0) => ~last.raised

(***************************************************************************)
(* Area-chair resolution (C6-C8), checked under SpecAC.                    *)
(***************************************************************************)
\* the ids of the two kinds, read off their pieces:
\* '{conference_id}/Submission<n>/Area_Chair_<code>' and
\* '{conference_id}/Submission<n>/Area_Chairs'
DigitsAt(g, from, to) ==
    /\ from <= to
    /\ \A i \in from..to : g[i] \in DigitChars

IsSpecificId(g) ==
    /\ Len(g) >= 8
    /\ SubSeq(g, 1, 3) = <<conference_id, "/", "Submission">>
    /\ DigitsAt(g, 4, Len(g) - 4)
    /\ SubSeq(g, Len(g) - 3, Len(g) - 1) = <<"/", "Area_Chair", "_">>
    /\ g[Len(g)] \notin {"/", "_", "s"}

IsPoolId(g) ==
    /\ Len(g) >= 7
    /\ SubSeq(g, 1, 3) = <<conference_id, "/", "Submission">>
    /\ DigitsAt(g, 4, Len(g) - 3)
    /\ SubSeq(g, Len(g) - 2, Len(g)) = <<"/", "Area_Chair", "s">>

NumberOfId(g, tailLen) == DecimalValue(SubSeq(g, 4, Len(g) - tailLen), 0)

AcDone == last.op = "get_ac_assigned_submissions"
UserIsAreaChair == call.profile_id \in Range(call.members)
UserSpecificIds == {g \in Range(call.user_groups) : IsSpecificId(g)}
UserPoolIds == {g \in Range(call.user_groups) : IsPoolId(g)}

\* C6: for an area chair of the venue exactly one strategy runs: the specific
\* one when some '.../Submission<n>/Area_Chair_<code>' group is among the user's
\* groups, the pool fallback otherwise (also with pool groups only).
C6_StrategySelection ==
    (AcDone /\ UserIsAreaChair)
    => /\ last.strategy \in {"specific", "fallback"}
       /\ (last.strategy = "specific") <=> (UserSpecificIds # {})
       /\ (last.strategy = "fallback") <=> (UserSpecificIds = {})

\* the fallback ran for a user who has pool groups and no specific group
C6_Witness ==
    /\ AcDone /\ UserIsAreaChair
    /\ last.strategy = "fallback"
    /\ UserPoolIds # {} /\ UserSpecificIds = {}
    /\ Len(last.ret) > 0

\* C7: the assigned numbers are the integers after '/Submission' in the user's
\* specific groups; each is requested once, in ascending order, and (no request
\* failing) the submissions returned are those of the assigned numbers.
C7_SpecificAssignment ==
    (AcDone /\ last.strategy = "specific")
    => /\ last.assigned = {NumberOfId(g, 4) : g \in UserSpecificIds}
       /\ (~last.raised)
            => /\ Len(last.fetched) = Cardinality(last.assigned)
               /\ Range(last.fetched) = last.assigned
               /\ \A i, j \in 1..Len(last.fetched) :
                      i < j => last.fetched[i] < last.fetched[j]
       /\ (call.fault.kind = "none")
            => /\ ~last.raised
               /\ \A i, j \in 1..Len(last.ret) :
                      i < j => last.ret[i].number < last.ret[j].number
               /\ Range(last.ret) = {p \in Range(call.source) : p.number \in last.assigned}

\* the groups of 7, 12 and 2: the three papers come back as 2, 7, 12
C7_Witness ==
    /\ AcDone /\ last.strategy = "specific"
    /\ last.fetched = <<2, 7, 12>>
    /\ Numbers(last.ret) = <<2, 7, 12>>

\* the submissions of the source that satisfy Keep, in the order of the source
Kept(source, Keep(_)) == SelectSeq(source, Keep)

\* C8 (as claimed): the fallback returns exactly the submissions, in fetch
\* order, whose readers include a pool group of the user.
C8_FallbackAnyPool ==
    LET Mine(p) == p.readers \cap UserPoolIds # {} IN
    (AcDone /\ last.strategy = "fallback" /\ ~last.raised)
    => last.ret = Kept(call.source, Mine)

\* C8 (amended): the fallback returns exactly the submissions, in fetch order,
\* whose readers include the paper's own pool group
\* '{conference_id}/Submission<number>/Area_Chairs' and a pool group of the user.
C8_FallbackOwnAndUserPool ==
    LET Mine(p) == /\ \E g \in p.readers : IsPoolId(g) /\ NumberOfId(g, 3) = p.number
                   /\ p.readers \cap UserPoolIds # {} IN
    (AcDone /\ last.strategy = "fallback" /\ ~last.raised)
    => last.ret = Kept(call.source, Mine)

\* the fallback kept submission 7 and left out submission 2, which the pool
\* group of 7 may read but its own pool group may not
C8_Witness ==
    /\ AcDone /\ last.strategy = "fallback" /\ ~last.raised
    /\ Numbers(last.ret) = <<7>>
    /\ \E i \in 1..Len(call.source) :
          /\ call.source[i].number = 2
          /\ call.source[i].readers \cap UserPoolIds # {}

(***************************************************************************)
(* Per-paper averages (C9), checked under SpecScore.                       *)
(***************************************************************************)
\* the places in the forum of paper of its reviews that carry the rating asked
\* for ("initial" or "final")
RatedAt(paper, score_type) ==
    LET notes == call.notes_of[paper.forum] IN
    {i \in 1..Len(notes) :
        /\ \E k \in 1..Len(notes[i].invitations) :
              notes[i].invitations[k] = Invitation(paper.number, "Official_Review")
        /\ IF score_type = "initial" THEN ~notes[i].rating.isNone
           ELSE ~notes[i].final_rating.isNone}

RECURSIVE RatingTotal(_, _, _)
RatingTotal(paper, score_type, places) ==
    IF places = {} THEN 0
    ELSE LET i == CHOOSE x \in places : TRUE
             note == call.notes_of[paper.forum][i] IN
         (IF score_type = "initial" THEN note.rating.val ELSE note.final_rating.val)
         + RatingTotal(paper, score_type, places \ {i})

Total(paper, score_type) == RatingTotal(paper, score_type, RatedAt(paper, score_type))
Count(paper, score_type) == Cardinality(RatedAt(paper, score_type))

Configured(score_type) ==
    IF score_type = "initial" THEN call.CONFERENCE_INFO.has_rating
    ELSE call.CONFERENCE_INFO.has_final_rating

\* the submissions whose notes the histogram asks for, and those that get an average
Asked == LET Wanted(p) == ~(call.exclude_withdrawn /\ IsWithdrawn(p)) IN
         SelectSeq(call.submissions, Wanted)
Averaged == LET Rated(p) == Count(p, call.score_type) > 0 IN SelectSeq(Asked, Rated)

ExtractDone == last.op = "extract_average_scores" /\ ~last.raised
ListDone == last.op = "get_author_papers_list" /\ ~last.raised

\* the histogram's sequence: one exact mean per submission that has a rating,
\* none for the others; withdrawn submissions' notes are not asked for
HistogramAverages ==
    (ExtractDone /\ Configured(call.score_type))
    => /\ Numbers(Asked) = last.forums
       /\ Len(last.ret) = Len(Averaged)
       /\ \A i \in 1..Len(Averaged) :
             /\ last.ret[i].den > 0
             /\ last.ret[i].num * Count(Averaged[i], call.score_type)
                  = Total(Averaged[i], call.score_type) * last.ret[i].den

\* the listing's avg_score and avg_final_score are 'N/A' exactly when no rating
\* is present
ListingNA ==
    ListDone
    => \A i \in 1..Len(last.ret) :
          LET p == call.submissions[i] IN
          /\ last.ret[i].paper_number = p.number
          /\ last.ret[i].avg_score.na
               <=> (Count(p, "initial") = 0 \/ ~Configured("initial"))
          /\ last.ret[i].avg_final_score.na
               <=> (Count(p, "final") = 0 \/ ~Configured("final"))

\* C9 (as claimed): every average, of the histogram and of the listing, is the
\* arithmetic mean of the ratings present; none is produced when none is present.
C9_AveragesAreMeans ==
    /\ HistogramAverages
    /\ ListingNA
    /\ ListDone
       => \A i \in 1..Len(last.ret) :
             LET p == call.submissions[i] IN
             /\ ~last.ret[i].avg_score.na
                  => last.ret[i].avg_score.hundredths * Count(p, "initial")
                       = 100 * Total(p, "initial")
             /\ ~last.ret[i].avg_final_score.na
                  => last.ret[i].avg_final_score.hundredths * Count(p, "final")
                       = 100 * Total(p, "final")

\* |h/100 - total/count| <= 1/200: h hundredths is the mean to two decimals
NearestHundredth(h, total, count) ==
    LET d == 100 * total - h * count IN
    /\ 2 * d <= count
    /\ 2 * (0 - d) <= count

\* C9 (amended): the histogram's average is the arithmetic mean of the ratings
\* present, and the listing's avg_score and avg_final_score are that mean
\* rounded to two decimals; none is produced when no rating is present, and
\* withdrawn submissions are skipped before their notes are fetched.
C9_MeansRoundedInListing ==
    /\ HistogramAverages
    /\ ListingNA
    /\ ListDone
       => \A i \in 1..Len(last.ret) :
             LET p == call.submissions[i] IN
             /\ ~last.ret[i].avg_score.na
                  => NearestHundredth(last.ret[i].avg_score.hundredths,
                                      Total(p, "initial"), Count(p, "initial"))
             /\ ~last.ret[i].avg_final_score.na
                  => NearestHundredth(last.ret[i].avg_final_score.hundredths,
                                      Total(p, "final"), Count(p, "final"))

\* ratings 1, 1 and 2 with the listing's avg_score 1.33
C9_Witness ==
    /\ ListDone
    /\ Len(last.ret) = 2
    /\ Count(call.submissions[1], "initial") = 3
    /\ Total(call.submissions[1], "initial") = 4
    /\ last.ret[1].avg_score = Hundredths(133)

\* the histogram skips a withdrawn submission and averages 1 and 2, one review
\* of the other submission carrying no rating
C9_WitnessHistogram ==
    /\ ExtractDone /\ call.score_type = "initial" /\ call.exclude_withdrawn
    /\ last.forums = <<2>>
    /\ last.ret = <<[num |-> 2, den |-> 1]>>

(***************************************************************************)
(* Header reconciliation (C10), checked under SpecSheet.                   *)
(***************************************************************************)
\* the names of W that are not in H, each once, in W's order
RECURSIVE NewNames(_, _)
NewNames(W, H) ==
    IF Len(W) = 0 THEN <<>>
    ELSE LET rest == NewNames(SubSeq(W, 1, Len(W) - 1), H)
             name == W[Len(W)] IN
         IF name \in Range(H) \cup Range(rest) THEN rest ELSE Append(rest, name)

HeadersWritten == last.op = "_write_headers"

\* C10: without overwrite, for every existing header row H and written list W,
\* the write yields H unchanged followed by the names of W that are not in H, in
\* W's order, and stages cells for exactly those new names.
C10_AppendNewHeaders ==
    (HeadersWritten /\ ~last.overwrite /\ ~last.before.isNone)
    => LET H == last.before.val
           New == NewNames(last.W, H)
           Result == H \o New IN
       /\ ~last.raised
       /\ last.headers = [i \in 1..Len(Result) |-> Some(Result[i])]
       /\ last.staged = [k \in 1..Len(New) |->
                            [row |-> 0, col |-> Len(H) + k - 1, value |-> New[k]]]
       /\ HeaderRow(sheet) = Some(Result)

\* C11: with overwrite, for every existing header row H (also one longer than
\* W) and written list W, the header row of the sheet after the write is
\* exactly W.
C11_OverwriteReplacesRow ==
    (HeadersWritten /\ last.overwrite /\ ~last.before.isNone)
    => /\ ~last.raised
       /\ last.headers = [i \in 1..Len(last.W) |-> Some(last.W[i])]
       /\ HeaderRow(sheet) = Some(last.W)

\* C13: after any sequence of header writes, with or without overwrite and
\* with any header lists, the header list has unique entries and no unfilled
\* (None) position (stated of the writes that return a list).
C13_HeadersUniqueAndFilled ==
    (HeadersWritten /\ ~last.raised)
    => /\ \A i \in 1..Len(last.headers) : ~last.headers[i].isNone
       /\ \A i, j \in 1..Len(last.headers) :
             i # j => last.headers[i] # last.headers[j]
       /\ \A i, j \in 1..Len(sheet.remote[1]) :
             i # j => sheet.remote[1][i] # sheet.remote[1][j]

(***************************************************************************)
(* Targeted cell updates (C12), checked under SpecCells.                   *)
(***************************************************************************)
CellsWritten == last.op = "write_cells" /\ ~last.raised

\* the snapshot row (from 0) that meets every condition of pair n, the first
\* one; -1 when there is none
MeetsAll(row, n) ==
    \A j \in 1..Len(call.where[n]) :
        LET c == call.where[n][j] IN
        \E k \in 1..Len(last.before[1]) :
            /\ last.before[1][k] = c.key
            /\ \A m \in 1..(k - 1) : last.before[1][m] # c.key
            /\ row[k] = c.value

LocatedRow(n) ==
    LET hits == {i \in 0..(Len(last.before) - 1) : MeetsAll(last.before[i + 1], n)} IN
    IF hits = {} THEN -1 ELSE CHOOSE i \in hits : \A h \in hits : i <= h

\* the column (from 0) headed by the name, -1 when no column is
ColumnOf(name) ==
    IF Len(last.before) = 0 \/ name \notin Range(last.before[1]) THEN -1
    ELSE (CHOOSE k \in 1..Len(last.before[1]) :
             /\ last.before[1][k] = name
             /\ \A m \in 1..(k - 1) : last.before[1][m] # name) - 1

\* the targets of the call: item j of pair n, its row located and its column
\* a header
Targets ==
    {t \in {[n |-> n, j |-> j] : n \in 1..Len(call.what), j \in 1..2} :
        /\ t.j <= Len(call.what[t.n])
        /\ LocatedRow(t.n) >= 0
        /\ ColumnOf(call.what[t.n][t.j].key) >= 0}

TargetRow(t) == LocatedRow(t.n)
TargetCol(t) == ColumnOf(call.what[t.n][t.j].key)
TargetValue(t) == call.what[t.n][t.j].value
OldValue(t) == last.before[TargetRow(t) + 1][TargetCol(t) + 1]

\* non-empty, different from the new value, and no overwrite
Protected(t) == OldValue(t) # "" /\ OldValue(t) # TargetValue(t) /\ ~call.overwrite

Before(t, u) == t.n < u.n \/ (t.n = u.n /\ t.j < u.j)

\* C12: for a located row and each target column, the new value is staged
\* unless the snapshot cell is non-empty with a different value and overwrite
\* was not requested; then the cell keeps its value and the skip is logged;
\* otherwise the cell becomes the new value.
C12_NoClobber ==
    CellsWritten
    => LET Written == {t \in Targets : ~Protected(t)}
           Held == {t \in Targets : Protected(t)} IN
       /\ last.updates_count = Cardinality(Written)
       /\ Len(last.staged) = Cardinality(Written)
       /\ \A t \in Written :
             \E k \in 1..Len(last.staged) :
                /\ last.staged[k] = [row |-> TargetRow(t), col |-> TargetCol(t),
                                     value |-> TargetValue(t)]
                /\ k = Cardinality({u \in Written : Before(u, t)}) + 1
       /\ \A t \in Held :
             /\ \E k \in 1..Len(last.log) :
                   last.log[k] = [what |-> "skip_non_empty", row |-> TargetRow(t),
                                  col_header |-> call.what[t.n][t.j].key]
             /\ (\A u \in Written : TargetRow(u) # TargetRow(t) \/ TargetCol(u) # TargetCol(t))
                  => sheet.remote[TargetRow(t) + 1][TargetCol(t) + 1] = OldValue(t)
       /\ \A t \in Written :
             (\A u \in Written : Before(t, u)
                  => (TargetRow(u) # TargetRow(t) \/ TargetCol(u) # TargetCol(t)))
             => sheet.remote[TargetRow(t) + 1][TargetCol(t) + 1] = TargetValue(t)

\* the cell B of the row with A = 'x' holds 'y'; 'x' is written to it without
\* overwrite: the cell stays 'y' and the skip is logged, nothing is staged
C12_Witness ==
    /\ CellsWritten /\ ~call.overwrite
    /\ call.where = <<<<Item("A", "x")>>>> /\ call.what = <<<<Item("B", "x")>>>>
    /\ last.before = <<<<"A", "B">>, <<"x", "y">>>>
    /\ last.staged = <<>>
    /\ sheet.remote = last.before
    /\ last.log = <<[what |-> "skip_non_empty", row |-> 1, col_header |-> "B"]>>

(***************************************************************************)
(* C14: write_rows splits the rows it writes (the input rows, or with      *)
(* index_col the rows picked by the index column) into consecutive chunks  *)
(* of batch_size, in order; each chunk's cells are staged and flushed      *)
(* once, when its _write_batch completes and before the next chunk is      *)
(* staged; when chunk k fails, in staging or in its flush, the cells of    *)
(* the chunks before k are on the remote sheet and no cell of chunk k or   *)
(* of a later chunk is.                                                    *)
(***************************************************************************)
RowsWritten == last.op = "write_rows"

CellAt(rows, r, c) ==
    IF r + 1 <= Len(rows) /\ c + 1 <= Len(rows[r + 1]) THEN rows[r + 1][c + 1] ELSE ""

NumChunks == (Len(last.rows) + call.args.batch_size - 1) \div call.args.batch_size

ChunkOf(i) == ((i - 1) \div call.args.batch_size) + 1

HeaderRows == IF call.args.write_headers THEN 1 ELSE 0

\* the sheet row of the i-th written row (i from 1)
SheetRowOf(i) == call.args.start_row_idx + HeaderRows + (i - 1)

\* the cells that the rows of chunk k ask for
ChunkCells(k) ==
    {[row |-> SheetRowOf(i), col |-> j - 1, value |-> last.rows[i][last.headers.val[j].val]] :
        <<i, j>> \in {p \in (1..Len(last.rows)) \X (1..Len(last.headers.val)) :
                         /\ ChunkOf(p[1]) = k
                         /\ ~last.headers.val[p[2]].isNone
                         /\ last.headers.val[p[2]].val \in DOMAIN last.rows[p[1]]}}

FaultHit ==
    /\ RowsWritten /\ last.raised
    /\ call.fault.kind # "none" /\ call.fault.batch <= NumChunks

PlacedCall == RowsWritten /\ ~last.raised /\ call.args.index_col.isNone

\* the flushes of the batches: those after the header flush, when there is one
BatchFlushes == SubSeq(last.flushes, HeaderRows + 1, Len(last.flushes))

StagedAt(r, c) ==
    {p \in {q \in (1..Len(BatchFlushes)) \X (1..MaxRowsIn * MaxCols) :
               q[2] <= Len(BatchFlushes[q[1]])} :
        BatchFlushes[p[1]][p[2]].row = r /\ BatchFlushes[p[1]][p[2]].col = c}

HasKey(i, j) ==
    /\ ~last.headers.val[j].isNone
    /\ last.headers.val[j].val \in DOMAIN call.args.rows[i]

C20_RowPlacement ==
    PlacedCall =>
        /\ last.current_row_idx
              = call.args.start_row_idx + HeaderRows + Len(call.args.rows)
        /\ Len(call.args.rows) > 0 =>
              /\ ~last.headers.isNone
              /\ \A i \in 1..Len(call.args.rows) : \A j \in 1..Len(last.headers.val) :
                    IF HasKey(i, j)
                    THEN /\ Cardinality(StagedAt(SheetRowOf(i), j - 1)) = 1
                         /\ \A p \in StagedAt(SheetRowOf(i), j - 1) :
                               BatchFlushes[p[1]][p[2]].value
                                   = call.args.rows[i][last.headers.val[j].val]
                         /\ CellAt(sheet.remote, SheetRowOf(i), j - 1)
                               = Rendered(call.args.rows[i][last.headers.val[j].val])
                    ELSE StagedAt(SheetRowOf(i), j - 1) = {}
              /\ \A k \in 1..Len(BatchFlushes) : \A n \in 1..Len(BatchFlushes[k]) :
                    \E i \in 1..Len(call.args.rows) : \E j \in 1..Len(last.headers.val) :
                       /\ HasKey(i, j)
                       /\ BatchFlushes[k][n].row = SheetRowOf(i)
                       /\ BatchFlushes[k][n].col = j - 1

\* three rows in batches of two under a header row written at row 1 that had
\* to take a new name; one row lacks a key of the header list
C20_Witness ==
    /\ PlacedCall /\ Len(call.args.rows) = 3 /\ call.args.batch_size = 2
    /\ call.args.write_headers /\ call.args.start_row_idx = 1
    /\ ~last.headers.isNone
    /\ \E i \in 1..3 : \E j \in 1..Len(last.headers.val) : ~HasKey(i, j)
    /\ \E i \in 1..3 : \E j \in 1..Len(last.headers.val) : HasKey(i, j)

(***************************************************************************)
(* C15: with no bin count given and max - min at most 5, the bin edges are *)
(* the evenly spaced sequence from min - 0.25 in steps of 0.5 that extends *)
(* through at least max + 0.25, so that every score, the highest included, *)
(* falls inside a bin; with a range above 5 the binning is automatic.      *)
(***************************************************************************)
Plotted == last.op = "generate_histogram" /\ last.result.plotted

NarrowRange == np_max(call.scores) - np_min(call.scores) <= 5 * Unit

EvenlySpaced(edges) ==
    /\ Len(edges) >= 2
    /\ edges[1] = np_min(call.scores) - Quarter
    /\ \A k \in 1..(Len(edges) - 1) : edges[k + 1] = edges[k] + Half

C15_BinsReachPastMax ==
    (Plotted /\ call.bins.isNone) =>
        IF NarrowRange
        THEN /\ last.result.bins.kind = "edges"
             /\ EvenlySpaced(last.result.bins.edges)
             /\ last.result.bins.edges[Len(last.result.bins.edges)]
                   >= np_max(call.scores) + Quarter
             /\ \A i \in 1..Len(call.scores) : Counted(call.scores[i], last.result.bins.edges)
        ELSE last.result.bins.kind = "auto"

\* amended: the edges extend through at least max
C15_BinsReachMax ==
    (Plotted /\ call.bins.isNone) =>
        IF NarrowRange
        THEN /\ last.result.bins.kind = "edges"
             /\ EvenlySpaced(last.result.bins.edges)
             /\ last.result.bins.edges[Len(last.result.bins.edges)] >= np_max(call.scores)
             /\ \A i \in 1..Len(call.scores) : Counted(call.scores[i], last.result.bins.edges)
        ELSE last.result.bins.kind = "auto"

\* two scores a quarter apart: the last edge is the highest score itself
C15_Witness ==
    /\ Plotted /\ call.bins.isNone /\ NarrowRange
    /\ np_max(call.scores) = np_min(call.scores) + Quarter
    /\ last.result.bins.edges[Len(last.result.bins.edges)] = np_max(call.scores)

(***************************************************************************)
(* C16: when the request for one paper's forum notes fails during score    *)
(* extraction, that paper is skipped and the loop goes on: the extraction  *)
(* returns, with the averages of the other papers.                         *)
(***************************************************************************)
NotesRequestFailed ==
    /\ last.op = "extract_average_scores"
    /\ call.notesFailAt > 0 /\ Len(Asked) >= call.notesFailAt

C16_FetchErrorsSkipPaper ==
    NotesRequestFailed =>
        /\ ~last.raised
        /\ Configured(call.score_type) =>
              LET Other(q) == q # Asked[call.notesFailAt] IN
              Len(last.ret) = Len(SelectSeq(Averaged, Other))

(***************************************************************************)
(* C17: when the extractor of the requested score type is missing, score   *)
(* extraction raises nothing and returns the empty sequence (no request    *)
(* failing); a score type other than 'initial' and 'final' is rejected     *)
(* with an error, whatever the submissions are.                            *)
(***************************************************************************)
ExtractRan == last.op = "extract_average_scores"

C17_ConfigurationErrors ==
    /\ (ExtractRan /\ call.score_type \in ScoreTypes /\ ~Configured(call.score_type)
           /\ call.notesFailAt = 0)
          => (~last.raised /\ last.ret = <<>>)
    /\ (ExtractRan /\ call.score_type \notin ScoreTypes) => last.raised

(***************************************************************************)
(* C18: with caching on and refresh off, a call of get_all_submissions,    *)
(* get_ac_assigned_submissions or extract_average_scores that follows a    *)
(* call which completed and saved its result under the same key returns    *)
(* the saved result and issues no submission or note request; a call that  *)
(* misses saves the result it returns, under its key, before it returns;   *)
(* a call whose fetch raises saves nothing.                                *)
(***************************************************************************)
CalledOnce == last.op \in {"first", "second"}

Missed == CalledOnce /\ ~last.before[_get_cache_path(last.key)].exists

SavedUnderKey ==
    /\ last.saved
    /\ disk[_get_cache_path(last.key)] = File(pickle_dump(last.ret))

ReadThrough ==
    (last.op = "second" /\ ~last.earlier.raised /\ last.earlier.saved)
        => (~last.raised /\ last.ret = last.earlier.ret /\ ~last.fetched
            /\ disk = last.before)

NothingSavedOnRaise == (CalledOnce /\ last.raised) => disk = last.before

C18_ReadThroughWriteThrough ==
    /\ ReadThrough
    /\ (Missed /\ ~last.raised) => SavedUnderKey
    /\ NothingSavedOnRaise

\* amended: get_ac_assigned_submissions returns the empty list unsaved when the
\* venue lists no area chairs or the user is not among them
ThisCallWas == IF last.op = "first" THEN call.first ELSE call.second

NotAnAreaChair ==
    /\ call.op = "get_ac_assigned_submissions"
    /\ ThisCallWas.profile_id \notin Range(ThisCallWas.members)

C18_WriteThroughButForNonChairs ==
    /\ ReadThrough
    /\ (Missed /\ ~last.raised) =>
          IF NotAnAreaChair THEN last.ret = <<>> /\ ~last.fetched /\ disk = last.before
          ELSE SavedUnderKey
    /\ NothingSavedOnRaise

\* a second call answered from the file of the first although the source changed
C18_Witness ==
    /\ last.op = "second" /\ last.earlier.saved /\ ~last.fetched
    /\ last.ret # <<>>
    /\ call.op = "extract_average_scores" /\ call.first.notes_of # call.second.notes_of

(***************************************************************************)
(* C19: get_author_papers_list returns one entry, in fetch order, for each *)
(* fetched submission of which the user is an author, and none for any     *)
(* other: the identifier (the profile's id, or the identifier as given     *)
(* when the lookup fails or finds nothing) is one of the submission's      *)
(* author ids, leading tildes aside, or one of its author names, case      *)
(* aside.                                                                  *)
(***************************************************************************)
AuthorListed == last.op = "get_author_papers_list" /\ "author_identifier" \in DOMAIN call

ResolvedId ==
    IF call.profile.raised THEN call.author_identifier
    ELSE IF call.profile.value.isNone THEN call.author_identifier
    ELSE call.profile.value.val

NamesAuthor(paper) ==
    \/ \E i \in 1..Len(paper.authorids) :
          lstrip(paper.authorids[i], "~") = lstrip(ResolvedId, "~")
    \/ \E i \in 1..Len(paper.authors) : lower(paper.authors[i]) = lower(ResolvedId)

C19_ListsTheAuthorsPapers ==
    AuthorListed =>
        /\ ~last.raised
        /\ last.all_submissions = call.source
        /\ [i \in 1..Len(last.ret) |-> last.ret[i].paper_number]
              = Numbers(SelectSeq(call.source, NamesAuthor))

(***************************************************************************)
(* C21: write_cells never raises because of an unmatched row or an unknown *)
(* column: for each (where, what) pair only the first snapshot row meeting *)
(* every condition is updated; a pair whose conditions no row meets, or    *)
(* name a column that is no header, is skipped with a warning, a target    *)
(* column that is no header is skipped with a warning, and the remaining   *)
(* pairs and columns are processed.                                        *)
(***************************************************************************)
CellsCalled == last.op = "write_cells"

C21_SkipAndContinue ==
    CellsCalled =>
        /\ ~last.raised
        /\ \A k \in 1..Len(last.staged) :
              \E n \in 1..Len(call.where) : LocatedRow(n) = last.staged[k].row
        /\ \A n \in 1..Len(call.where) :
              LocatedRow(n) = -1
                 => \E k \in 1..Len(last.log) : last.log[k] = [what |-> "no_row", pair |-> n]
        /\ \A n \in 1..Len(call.what) : \A j \in 1..Len(call.what[n]) :
              (LocatedRow(n) >= 0 /\ ColumnOf(call.what[n][j].key) = -1)
                 => \E k \in 1..Len(last.log) :
                       last.log[k] = [what |-> "no_column", row |-> LocatedRow(n),
                                      col_header |-> call.what[n][j].key]

(***************************************************************************)
(* C22: a header write without overwrite to a sheet that has no header row *)
(* yet (headers is None: a new sheet, or one just cleared) completes       *)
(* without error and yields exactly the written headers, in their order,   *)
(* at columns 0..n-1, as the write with overwrite does.                    *)
(***************************************************************************)
HeadersAbsent == HeadersWritten /\ last.view.isNone

C22_HeadersOnBlankSheet ==
    (HeadersAbsent /\ ~last.overwrite)
    => /\ ~last.raised
       /\ last.headers = [i \in 1..Len(last.W) |-> Some(last.W[i])]
       /\ last.staged = [i \in 1..Len(last.W) |->
                            [row |-> 0, col |-> i - 1, value |-> last.W[i]]]
       /\ HeaderRow(sheet) = Some(last.W)

(***************************************************************************)
(* C23: in every row of the author listing, for every configured set of    *)
(* note classifiers, others_count is the number of forum notes that no     *)
(* classifier matches, so it is never negative, and the counts of all      *)
(* classifiers and others_count add up to the number of forum notes.       *)
(***************************************************************************)
NotesCounted == ListDone /\ Len(last.ret) = 1

\* the forum notes of the one listed paper that no classifier matches
Unmatched ==
    LET keys == NOTE_EXTRACTORS(call.conference) IN
    {i \in 1..Len(call.notes) :
        \A k \in 1..Len(keys) : ~NoteExtractor(call.conference, keys[k], call.notes[i])}

C23_OthersCount ==
    NotesCounted =>
        /\ last.ret[1].others_count = Cardinality(Unmatched)
        /\ last.ret[1].others_count >= 0
        /\ Sum(last.ret[1].note_counts) + last.ret[1].others_count = Len(call.notes)

(***************************************************************************)
(* C24: write_cells never stages a write to the header row: for every list *)
(* of (where, what) pairs, also with an empty condition set or conditions  *)
(* whose values are header names, and for either overwrite setting, every  *)
(* staged cell lies in a data row (snapshot index >= 1) and the header row *)
(* of the sheet is as it was.                                              *)
(***************************************************************************)
C24_HeaderRowUntouched ==
    (CellsCalled /\ Len(last.before) > 0)
    => /\ \A k \in 1..Len(last.staged) : last.staged[k].row >= 1
       /\ sheet.remote[1] = last.before[1]

(***************************************************************************)
(* C25: after any sequence of header writes (with or without overwrite),   *)
(* clears, pulls and reads, the headers property is the first row of the   *)
(* current local snapshot, and get_data_list keys every data row by the    *)
(* header row of the snapshot it has just pulled.                          *)
(***************************************************************************)
DataListed == last.op = "get_data_list"

C25_HeadersFollowSnapshot ==
    /\ Len(sheet.local_sheet_values) > 0
          => headers(sheet)._headers = Some(sheet.local_sheet_values[1])
    /\ DataListed
          => last.ret = [i \in 1..(Len(sheet.local_sheet_values) - 1) |->
                            DictOfZip(sheet.local_sheet_values[1],
                                      sheet.local_sheet_values[i + 1])]

(***************************************************************************)
(* C26: in every row of the author listing and for every k in 1..5,        *)
(* reviewer<k>_score and reviewer<k>_final_score are the initial and the   *)
(* final rating of the k-th review of the paper, in forum-note order; a    *)
(* rating that is absent (or a k-th review that does not exist) gives an   *)
(* empty cell at position k and shifts no later reviewer's score.          *)
(***************************************************************************)
\* the cell for the rating of the k-th review of the paper p
RatingCell(p, k, score_type) ==
    LET reviews == ReviewsOf(call.notes_of[p.forum], p.number)
        rating == IF k > Len(reviews) THEN None
                  ELSE IF score_type = "initial" THEN RATING_EXTRACTOR(reviews[k])
                  ELSE FINAL_RATING_EXTRACTOR(reviews[k]) IN
    IF Configured(score_type) /\ ~rating.isNone THEN Number(rating.val) ELSE Blank

C26_ScoresAligned ==
    ListDone
    => \A i \in 1..Len(last.ret) : \A k \in 1..5 :
          LET p == call.submissions[i] IN
          /\ last.ret[i].reviewer_score[k] = RatingCell(p, k, "initial")
          /\ last.ret[i].reviewer_final_score[k] = RatingCell(p, k, "final")

====
